---- MODULE Spec2Model ----
(***************************************************************************)
(* grab_common: the real-time worker (libgrabrt Thread / ThreadClock).     *)
(*                                                                         *)
(* One Thread object, the thread that controls it (the "caller") and the   *)
(* execution context spawned for it (the "worker", Thread::TargetFun).     *)
(* Time is CLOCK_MONOTONIC, counted in ticks of TickNs nanoseconds and     *)
(* kept as a struct timespec, so that ThreadClock's seconds/nanoseconds    *)
(* arithmetic is the code's.                                               *)
(***************************************************************************)
EXTENDS Integers, Sequences, FiniteSets, TLC

\* ------------------------------------------------------------- bounds
TicksPerSec == 4
MaxPeriodTicks == 3
MaxWaits == 4
MaxClockTicks == 9
StatusWordBits == 7
MaxValue == 1
NumCores == 3
MaxCpuList == 4

\* ---------------------------------------------------------- constants
kNanoSec2Sec == 1000000000
kDefaultCycleNsec == 1000000
EFAULT == 14
\* GoldSoloWhistleDriveStates (goldsolowhistledrive.h:28-40)
ST_START == 0
ST_NOT_READY_TO_SWITCH_ON == 1
ST_SWITCH_ON_DISABLED == 2
ST_READY_TO_SWITCH_ON == 3
ST_SWITCHED_ON == 4
ST_OPERATION_ENABLED == 5
ST_QUICK_STOP_ACTIVE == 6
ST_FAULT_REACTION_ACTIVE == 7
ST_FAULT == 8
ST_MAX_STATES == 9
\* GoldSoloWhistleOperationModes (goldsolowhistledrive.h:48-54)
NULL_OPERATION == -1
CYCLIC_POSITION == 8
CYCLIC_VELOCITY == 9
CYCLIC_TORQUE == 10
\* The core sentinels of BuildCPUSet: BuildCPUSet(-1) is the last core
\* (libgrabrt_test.cpp:38-40), and the single-core form accepts nothing
\* below ALL_CORES (threads.cpp:50)
END_CORE == -1
ALL_CORES == -2

TickNs == kNanoSec2Sec \div TicksPerSec
\* The cycle periods a caller passes to GetReady, 2 ticks and up.
Periods == {k * TickNs : k \in 2..MaxPeriodTicks}
\* The worker is never kept from running for more than MaxLag ticks past
\* its clock reference (one tick more than an overrun of the longest period
\* takes).
MaxLag == MaxPeriodTicks + 2
MaxHookDur == MaxPeriodTicks + 2

NULL == "NULL"
SCHED_OTHER == "SCHED_OTHER"
SCHED_FIFO == "SCHED_FIFO"
SCHED_RR == "SCHED_RR"
Policies == {SCHED_OTHER, SCHED_FIFO, SCHED_RR}

\* --------------------------------------------------- struct timespec
Timespec(s, n) == [tv_sec |-> s, tv_nsec |-> n]
ZeroTime == Timespec(0, 0)
\* A timespec as a whole number of ticks (tv_nsec is a multiple of TickNs
\* in every state of the model; WellFormed checks it).
Ticks(ts) == ts.tv_sec * TicksPerSec + ts.tv_nsec \div TickNs
WellFormed(ts) == /\ ts.tv_nsec >= 0
                  /\ ts.tv_nsec < kNanoSec2Sec
                  /\ ts.tv_nsec % TickNs = 0
FromTicks(k) == Timespec(k \div TicksPerSec, (k % TicksPerSec) * TickNs)
\* ts moved k ticks back
Shift(ts, k) == FromTicks(Ticks(ts) - k)
Min2(a, b) == IF a <= b THEN a ELSE b

\* ------------------------------------------------------- ThreadClock
\* clocks.cpp:41-45. NextCarryLost is Next without line 43, the carry of
\* whole seconds into tv_sec; NextNoWrap is Next as a plain addition to
\* tv_nsec.
NextNoWrap(c) ==
  [c EXCEPT !.time_ = Timespec(c.time_.tv_sec, c.time_.tv_nsec + c.period_nsec_)]
NextCarryLost(c) ==
  [c EXCEPT !.time_ = Timespec(c.time_.tv_sec,
                               (c.time_.tv_nsec + c.period_nsec_) % kNanoSec2Sec)]
Next(c) ==
  [c EXCEPT !.time_ =
     Timespec(c.time_.tv_sec + (c.time_.tv_nsec + c.period_nsec_) \div kNanoSec2Sec,
              (c.time_.tv_nsec + c.period_nsec_) % kNanoSec2Sec)]
\* clocks.cpp:27-31; t is what clock_gettime(CLOCK_MONOTONIC) returns
Reset(c, t) == [c EXCEPT !.time_ = t]
\* clocks.cpp:33-39, in ticks where the code counts in seconds
Elapsed(c, t) ==
  (t.tv_sec - c.time_.tv_sec) * TicksPerSec + (t.tv_nsec - c.time_.tv_nsec) \div TickNs
\* clocks.cpp:58-62: advances the reference, then returns it
GetNextTime(c) == Next(c)
\* ThreadClock::GetCurrentTime (clocks.h): the reference
GetCurrentTime(c) == c.time_
\* ThreadClock::SetAndGetNextTime (clocks.h): advances the reference, then
\* returns it
SetAndGetNextTime(c) == Next(c)
\* clocks.cpp:47-56, the part before the sleep: the advanced clock and
\* whether the deadline has passed already (the call then returns false)
WaitUntilNextClock(c) == Next(c)
\* WaitUntilNextLateOrDue is the test of line 50 as Elapsed() >= 0.
WaitUntilNextLateOrDue(c, t) == Elapsed(WaitUntilNextClock(c), t) >= 0
WaitUntilNextLate(c, t) == Elapsed(WaitUntilNextClock(c), t) > 0
NewClock(period) == [time_ |-> ZeroTime, period_nsec_ |-> period]

\* ---------------------------------------------- GoldSoloWhistleDrive
\* goldsolowhistledrive.h:395-401
StatusBit == [READY_TO_SWITCH_ON |-> 0, SWITCHED_ON |-> 1, OPERATION_ENABLED |-> 2,
              FAULT |-> 3, QUICK_STOP |-> 5, SWITCH_ON_DISABLED |-> 6]
\* The status words of the bus: the bits above StatusWordBits are not read
\* by the decode.
StatusWords == 0..(2^StatusWordBits - 1)
\* status_word[bit] == SET
BitIsSet(word, bit) == (word \div 2^bit) % 2 = 1
\* GetDriveState reading the ready bit where the code reads the switched-on
\* bit
GetDriveStateOnReadyBit(status_word) ==
  IF BitIsSet(status_word, StatusBit.SWITCH_ON_DISABLED)
    THEN ST_NOT_READY_TO_SWITCH_ON
  ELSE IF BitIsSet(status_word, StatusBit.QUICK_STOP)
    THEN IF ~BitIsSet(status_word, StatusBit.READY_TO_SWITCH_ON)
           THEN ST_READY_TO_SWITCH_ON
         ELSE IF ~BitIsSet(status_word, StatusBit.OPERATION_ENABLED)
           THEN ST_SWITCHED_ON
         ELSE ST_OPERATION_ENABLED
  ELSE IF ~BitIsSet(status_word, StatusBit.FAULT)
    THEN ST_QUICK_STOP_ACTIVE
  ELSE IF BitIsSet(status_word, StatusBit.OPERATION_ENABLED)
    THEN ST_FAULT_REACTION_ACTIVE
  ELSE ST_FAULT
\* goldsolowhistledrive.cpp:76-105
GetDriveState(status_word) ==
  IF BitIsSet(status_word, StatusBit.SWITCH_ON_DISABLED)
    THEN ST_NOT_READY_TO_SWITCH_ON
  ELSE IF BitIsSet(status_word, StatusBit.QUICK_STOP)
    THEN IF ~BitIsSet(status_word, StatusBit.SWITCHED_ON)
           THEN ST_READY_TO_SWITCH_ON
         ELSE IF ~BitIsSet(status_word, StatusBit.OPERATION_ENABLED)
           THEN ST_SWITCHED_ON
         ELSE ST_OPERATION_ENABLED
  ELSE IF ~BitIsSet(status_word, StatusBit.FAULT)
    THEN ST_QUICK_STOP_ACTIVE
  ELSE IF BitIsSet(status_word, StatusBit.OPERATION_ENABLED)
    THEN ST_FAULT_REACTION_ACTIVE
  ELSE ST_FAULT
\* state actions that raise no internal event
StateActionRaisesNone(state) == ST_MAX_STATES
\* the state actions with NotReadyToSwitchOn resting
StateActionStartOnly(state) ==
  IF state = ST_START THEN ST_NOT_READY_TO_SWITCH_ON ELSE ST_MAX_STATES
\* The state actions (goldsolowhistledrive.cpp:366-441): the internal event
\* an action raises, ST_MAX_STATES for none. Start and NotReadyToSwitchOn
\* pass on at once; every action leaves prev_state_ at its own state.
StateAction(state) ==
  IF state = ST_START THEN ST_NOT_READY_TO_SWITCH_ON
  ELSE IF state = ST_NOT_READY_TO_SWITCH_ON THEN ST_SWITCH_ON_DISABLED
  ELSE ST_MAX_STATES
\* StateMachine::InternalEvent with the state engine (state_machine.h): the
\* machine enters new_state, runs its action, and follows the internal
\* events the actions raise; the state it rests in.
RECURSIVE InternalEvent(_)
InternalEvent(new_state) ==
  IF StateAction(new_state) = ST_MAX_STATES
    THEN new_state
    ELSE InternalEvent(StateAction(new_state))
\* The transition map of SetChange (goldsolowhistledrive.cpp:345-361); the
\* two entries that are no state are numbers beyond the states.
EVENT_IGNORED == ST_MAX_STATES + 1
CANNOT_HAPPEN == ST_MAX_STATES + 2
SetChangeMap(state) ==
  IF state \in {ST_START, ST_NOT_READY_TO_SWITCH_ON} THEN CANNOT_HAPPEN
  ELSE IF state = ST_OPERATION_ENABLED THEN ST_OPERATION_ENABLED
  ELSE EVENT_IGNORED
\* goldsolowhistledrive.h:403-408
ControlBit == [SWITCH_ON |-> 0, ENABLE_VOLTAGE |-> 1, QUICK_STOP |-> 2,
               ENABLE_OPERATION |-> 3, FAULT |-> 7]
\* Bitfield16::Set and Bitfield16::Clear on a word held as a number
SetBit(word, bit) == IF BitIsSet(word, bit) THEN word ELSE word + 2^bit
ClearBit(word, bit) == IF BitIsSet(word, bit) THEN word - 2^bit ELSE word
\* a narrowing that saturates at the ends of the 16-bit range
Int16Saturated(value) ==
  IF value > 32767 THEN 32767 ELSE IF value < -32768 THEN -32768 ELSE value
\* static_cast<int16_t> (goldsolowhistledrive.cpp:416)
Int16(value) == ((value + 32768) % 65536) - 32768
\* The position, velocity and torque values of the model.
Values == 0..MaxValue
DisplayOpModes == {NULL_OPERATION, CYCLIC_POSITION, CYCLIC_VELOCITY, CYCLIC_TORQUE}
\* The input entries of the domain (goldsolowhistledrive.h:277-287; digital
\* inputs and auxiliary position are stored and never used).
BusInputs ==
  [status_word : StatusWords, display_op_mode : DisplayOpModes,
   pos_actual_value : Values, vel_actual_value : Values, torque_actual_value : Values]
\* the word with exactly these bits set
RECURSIVE WordOf(_)
WordOf(bits) ==
  IF bits = {} THEN 0
  ELSE LET bit == CHOOSE b \in bits : TRUE IN 2^bit + WordOf(bits \ {bit})
\* One status word for each way through GetDriveState
\* (goldsolowhistledrive.cpp:76-105), as the drive reports them.
CycleStatusWords ==
  { WordOf({}),
    WordOf({StatusBit.SWITCH_ON_DISABLED}),
    WordOf({StatusBit.QUICK_STOP, StatusBit.READY_TO_SWITCH_ON}),
    WordOf({StatusBit.QUICK_STOP, StatusBit.READY_TO_SWITCH_ON, StatusBit.SWITCHED_ON}),
    WordOf({StatusBit.QUICK_STOP, StatusBit.READY_TO_SWITCH_ON, StatusBit.SWITCHED_ON,
            StatusBit.OPERATION_ENABLED}),
    WordOf({StatusBit.READY_TO_SWITCH_ON, StatusBit.SWITCHED_ON,
            StatusBit.OPERATION_ENABLED}),
    WordOf({StatusBit.READY_TO_SWITCH_ON, StatusBit.SWITCHED_ON,
            StatusBit.OPERATION_ENABLED, StatusBit.FAULT}),
    WordOf({StatusBit.FAULT}) }
\* the value some steps after x, going round in Values
Around(x, steps) == (x + steps) % (MaxValue + 1)
\* What the bus delivers in a cycle of the model: one of these status words,
\* any displayed mode, any position; the velocity and the torque follow the
\* position so that the three differ where the values allow.
CycleInputs ==
  { [status_word |-> w, display_op_mode |-> m, pos_actual_value |-> x,
     vel_actual_value |-> Around(x, 1), torque_actual_value |-> Around(x, 2)] :
    w \in CycleStatusWords, m \in DisplayOpModes, x \in Values }
\* GoldSoloWhistleDriveData(op_mode, value) (goldsolowhistledrive.cpp:17-21)
GoldSoloWhistleDriveData(op_mode, value) == [op_mode |-> op_mode, value |-> value]
\* the action of OperationEnabled taking every other mode as a position mode
OperationEnabledDefaultsToPosition(d, data) ==
  LET moded == [d EXCEPT !.op_mode = data.op_mode]
      set == IF data.op_mode = CYCLIC_VELOCITY
               THEN [moded EXCEPT !.target_velocity = data.value]
             ELSE IF data.op_mode = CYCLIC_TORQUE
               THEN [moded EXCEPT !.target_torque = Int16(data.value)]
             ELSE [moded EXCEPT !.target_position = data.value]
  IN [set EXCEPT !.prev_state_ = ST_OPERATION_ENABLED]
\* goldsolowhistledrive.cpp:400-422: the action of OperationEnabled
OperationEnabled(d, data) ==
  LET moded == [d EXCEPT !.op_mode = data.op_mode]
      set == IF data.op_mode = CYCLIC_POSITION
               THEN [moded EXCEPT !.target_position = data.value]
             ELSE IF data.op_mode = CYCLIC_VELOCITY
               THEN [moded EXCEPT !.target_velocity = data.value]
             ELSE IF data.op_mode = CYCLIC_TORQUE
               THEN [moded EXCEPT !.target_torque = Int16(data.value)]
             ELSE moded
  IN [set EXCEPT !.prev_state_ = ST_OPERATION_ENABLED]
\* SetChange with a transition map that lets the event through from every
\* state
SetChangeFromEveryState(d, data) == OperationEnabled(d, data)
\* goldsolowhistledrive.cpp:345-361: SetChange is an external event that the
\* transition map lets through from OperationEnabled only; the assertion on
\* CANNOT_HAPPEN ends the program.
SetChange(d, data) ==
  IF SetChangeMap(d.current_state) = EVENT_IGNORED THEN d
  ELSE IF SetChangeMap(d.current_state) = CANNOT_HAPPEN
    THEN [d EXCEPT !.asserted = TRUE]
  ELSE OperationEnabled([d EXCEPT !.current_state = SetChangeMap(d.current_state)],
                        data)
\* goldsolowhistledrive.cpp:291-316: the target is the live value of the mode
ChangeOpMode(d, target_op_mode) ==
  SetChange(d, GoldSoloWhistleDriveData(target_op_mode,
     IF target_op_mode = CYCLIC_POSITION THEN d.pos_actual_value
     ELSE IF target_op_mode = CYCLIC_VELOCITY THEN d.vel_actual_value
     ELSE IF target_op_mode = CYCLIC_TORQUE THEN d.torque_actual_value
     ELSE 0))
\* goldsolowhistledrive.cpp:249-256
ChangePositionCode(d, target_position) ==
  SetChange(d, GoldSoloWhistleDriveData(CYCLIC_POSITION, target_position))
\* goldsolowhistledrive.cpp:263-270
ChangeVelocityCode(d, target_velocity) ==
  SetChange(d, GoldSoloWhistleDriveData(CYCLIC_VELOCITY, target_velocity))
\* goldsolowhistledrive.cpp:277-284: the parameter is an int16_t
ChangeTorqueCode(d, target_torque) ==
  SetChange(d, GoldSoloWhistleDriveData(CYCLIC_TORQUE, target_torque))
\* goldsolowhistledrive.cpp:286-289: the sum is an int and is narrowed to the
\* int16_t parameter of ChangeTorque
ChangeDeltaTorqueCode(d, delta_torque) ==
  ChangeTorqueCode(d, Int16(d.torque_actual_value + delta_torque))
\* goldsolowhistledrive.cpp:318-343: the displayed mode and its live value
SetTargetDefaultsCode(d) ==
  SetChange(d, GoldSoloWhistleDriveData(d.display_op_mode,
     IF d.display_op_mode = CYCLIC_POSITION THEN d.pos_actual_value
     ELSE IF d.display_op_mode = CYCLIC_VELOCITY THEN d.vel_actual_value
     ELSE IF d.display_op_mode = CYCLIC_TORQUE THEN d.torque_actual_value
     ELSE 0))
\* goldsolowhistledrive.cpp:135-158 on what the bus delivers
ReadInputsCode(d, in) ==
  LET read == [d EXCEPT !.status_word = in.status_word,
                        !.display_op_mode = in.display_op_mode,
                        !.pos_actual_value = in.pos_actual_value,
                        !.vel_actual_value = in.vel_actual_value,
                        !.torque_actual_value = in.torque_actual_value,
                        !.drive_state_ = GetDriveState(in.status_word)]
  IN IF read.drive_state_ # read.current_state
       THEN IF read.drive_state_ = ST_OPERATION_ENABLED
              THEN ChangeOpMode(read, read.display_op_mode)
              ELSE [read EXCEPT !.current_state = InternalEvent(read.drive_state_),
                                !.prev_state_ = InternalEvent(read.drive_state_)]
       ELSE read
\* WriteOutputs that leaves the mode of the domain
WriteOutputsKeepsMode(d) ==
  [d EXCEPT !.domain =
     IF d.drive_state_ = ST_OPERATION_ENABLED \/ d.drive_state_ = ST_SWITCHED_ON
       THEN [@ EXCEPT !.control_word = d.control_word,
                      !.target_position = d.target_position,
                      !.target_velocity = d.target_velocity,
                      !.target_torque = d.target_torque]
       ELSE [@ EXCEPT !.control_word = d.control_word]]
\* WriteOutputs that writes the targets in every state
WriteOutputsAllAlways(d) ==
  [d EXCEPT !.domain = [control_word |-> d.control_word, op_mode |-> d.op_mode,
                        target_position |-> d.target_position,
                        target_velocity |-> d.target_velocity,
                        target_torque |-> d.target_torque]]
\* goldsolowhistledrive.cpp:160-174: the output entries of the domain
WriteOutputsCode(d) ==
  LET always == [d.domain EXCEPT !.control_word = d.control_word,
                                 !.op_mode = d.op_mode]
  IN [d EXCEPT !.domain =
        IF d.drive_state_ = ST_OPERATION_ENABLED \/ d.drive_state_ = ST_SWITCHED_ON
          THEN [always EXCEPT !.target_position = d.target_position,
                              !.target_velocity = d.target_velocity,
                              !.target_torque = d.target_torque]
          ELSE always]
\* Shutdown that clears the enable-operation bit too
ShutdownClearsEnableOperation(d) ==
  [d EXCEPT !.control_word =
     ClearBit(ClearBit(SetBit(SetBit(ClearBit(@, ControlBit.SWITCH_ON),
                                     ControlBit.ENABLE_VOLTAGE),
                              ControlBit.QUICK_STOP),
                       ControlBit.ENABLE_OPERATION),
              ControlBit.FAULT)]
\* SwitchOn that keeps the target position
SwitchOnKeepsTarget(d) ==
  [d EXCEPT !.control_word =
              ClearBit(ClearBit(SetBit(SetBit(SetBit(@, ControlBit.SWITCH_ON),
                                              ControlBit.ENABLE_VOLTAGE),
                                       ControlBit.QUICK_STOP),
                                ControlBit.ENABLE_OPERATION),
                       ControlBit.FAULT),
            !.op_mode = CYCLIC_POSITION]
\* goldsolowhistledrive.cpp:180-247: the lifecycle events
ShutdownCode(d) ==
  [d EXCEPT !.control_word =
     ClearBit(SetBit(SetBit(ClearBit(@, ControlBit.SWITCH_ON),
                            ControlBit.ENABLE_VOLTAGE),
                     ControlBit.QUICK_STOP),
              ControlBit.FAULT)]
SwitchOnCode(d) ==
  [d EXCEPT !.control_word =
              ClearBit(ClearBit(SetBit(SetBit(SetBit(@, ControlBit.SWITCH_ON),
                                              ControlBit.ENABLE_VOLTAGE),
                                       ControlBit.QUICK_STOP),
                                ControlBit.ENABLE_OPERATION),
                       ControlBit.FAULT),
            !.op_mode = CYCLIC_POSITION,
            !.target_position = d.pos_actual_value]
\* EnableOperation that moves the state machine itself
EnableOperationEntersState(d) ==
  [d EXCEPT !.control_word =
     ClearBit(SetBit(SetBit(SetBit(SetBit(@, ControlBit.SWITCH_ON),
                                   ControlBit.ENABLE_VOLTAGE),
                            ControlBit.QUICK_STOP),
                     ControlBit.ENABLE_OPERATION),
              ControlBit.FAULT),
            !.current_state = ST_OPERATION_ENABLED]
EnableOperationCode(d) ==
  [d EXCEPT !.control_word =
     ClearBit(SetBit(SetBit(SetBit(SetBit(@, ControlBit.SWITCH_ON),
                                   ControlBit.ENABLE_VOLTAGE),
                            ControlBit.QUICK_STOP),
                     ControlBit.ENABLE_OPERATION),
              ControlBit.FAULT)]
DisableOperationCode(d) ==
  [d EXCEPT !.control_word =
     ClearBit(ClearBit(SetBit(SetBit(SetBit(@, ControlBit.SWITCH_ON),
                                     ControlBit.ENABLE_VOLTAGE),
                              ControlBit.QUICK_STOP),
                       ControlBit.ENABLE_OPERATION),
              ControlBit.FAULT)]
DisableVoltageCode(d) ==
  [d EXCEPT !.control_word =
     ClearBit(ClearBit(@, ControlBit.ENABLE_VOLTAGE), ControlBit.FAULT)]
QuickStopCode(d) ==
  [d EXCEPT !.control_word =
     ClearBit(ClearBit(SetBit(@, ControlBit.ENABLE_VOLTAGE), ControlBit.QUICK_STOP),
              ControlBit.FAULT)]
FaultResetCode(d) ==
  [d EXCEPT !.control_word = SetBit(@, ControlBit.FAULT)]
\* goldsolowhistledrive.cpp:27-73: the constructor. It leaves the numbers of
\* input_pdos_ and output_pdos_ as they are in memory (u: any values); the
\* two bit fields start cleared and the domain is the master's.
NewDriveOn(u) ==
  [status_word |-> 0, display_op_mode |-> u.display_op_mode,
   pos_actual_value |-> u.pos_actual_value, vel_actual_value |-> u.vel_actual_value,
   torque_actual_value |-> u.torque_actual_value,
   control_word |-> 0, op_mode |-> u.op_mode, target_position |-> u.target_position,
   target_velocity |-> u.target_velocity, target_torque |-> u.target_torque,
   drive_state_ |-> ST_START,
   current_state |-> InternalEvent(ST_START), prev_state_ |-> InternalEvent(ST_START),
   asserted |-> FALSE,
   domain |-> [control_word |-> 0, op_mode |-> 0, target_position |-> 0,
               target_velocity |-> 0, target_torque |-> 0]]
\* What the memory may hold: any modes, and numbers that differ where the
\* values allow.
Uninitialized ==
  { [display_op_mode |-> m, pos_actual_value |-> x,
     vel_actual_value |-> Around(x, 1), torque_actual_value |-> Around(x, 2),
     op_mode |-> o, target_position |-> y,
     target_velocity |-> Around(y, 1), target_torque |-> Around(y, 2)] :
    m \in DisplayOpModes, o \in DisplayOpModes, x \in Values, y \in Values }
NewDrive ==
  NewDriveOn([display_op_mode |-> NULL_OPERATION, pos_actual_value |-> 0,
              vel_actual_value |-> 0, torque_actual_value |-> 0,
              op_mode |-> NULL_OPERATION, target_position |-> 0,
              target_velocity |-> 0, target_torque |-> 0])

\* ------------------------------------------------ CPU sets (threads.cpp)
\* The number of cores of the machine, a signed count.
CPU_CORES_NUM == NumCores
\* The int8_t values a caller passes for a core: the sentinels, every core,
\* and one value off each end.
CoreArgs == (ALL_CORES - 1)..CPU_CORES_NUM
\* The lists of cores a caller passes, the empty one included.
CoreLists == UNION {[1..n -> CoreArgs] : n \in 0..MaxCpuList}
\* CPU_ZERO and CPU_SET of <sched.h>: the index is taken as a size_t, and an
\* index past the end of the set (every negative one) sets nothing.
CPU_ZERO == {}
CPU_SET(cpu, cpu_set) == IF cpu >= 0 THEN cpu_set \cup {cpu} ELSE cpu_set
\* What a call of BuildCPUSet comes to: the set it returns, or the end of
\* the process in HandleErrorEn.
Returned(cpu_set) == [fatal |-> FALSE, cpu_set |-> cpu_set]
HandleErrorEn == [fatal |-> TRUE, cpu_set |-> CPU_ZERO]

\* threads.cpp:44-66
BuildCPUSet(cpu_core) ==
  IF cpu_core < ALL_CORES \/ cpu_core >= CPU_CORES_NUM
    THEN HandleErrorEn
    ELSE CASE cpu_core = ALL_CORES -> Returned(0..(CPU_CORES_NUM - 1))
           [] cpu_core = END_CORE -> Returned(CPU_SET(CPU_CORES_NUM - 1, CPU_ZERO))
           [] OTHER -> Returned(CPU_SET(cpu_core, CPU_ZERO))

\* threads.cpp:77-86: the loop over the list, from element i on
RECURSIVE SetAffineCores(_, _, _)
SetAffineCores(cpu_cores, i, cpu_set) ==
  IF i > Len(cpu_cores)
    THEN Returned(cpu_set)
    ELSE IF cpu_cores[i] >= CPU_CORES_NUM
           THEN HandleErrorEn
           ELSE SetAffineCores(cpu_cores, i + 1,
                  IF cpu_cores[i] = END_CORE
                    THEN CPU_SET(CPU_CORES_NUM - 1, cpu_set)
                    ELSE CPU_SET(cpu_cores[i], cpu_set))

\* threads.cpp:68-89
BuildCPUSetList(cpu_cores) ==
  IF Len(cpu_cores) > CPU_CORES_NUM
    THEN HandleErrorEn
    ELSE SetAffineCores(cpu_cores, 1, CPU_ZERO)

VARIABLES
  \* Thread members
  init_fun_ptr_, init_fun_args_ptr_, loop_fun_ptr_, loop_fun_args_ptr_,
  end_fun_ptr_, end_fun_args_ptr_, emergency_exit_fun_ptr_,
  emergency_exit_fun_args_ptr_,
  policy,               \* the scheduling policy held in attr_
  cycle_time_nsec_, active_, run_, stop_cmd_recv_, rt_deadline_missed_,
  mutex_,               \* "free", or its owner "caller" / "worker"
  spawned,              \* thread_id_ names a created thread
  \* TargetFun's position and locals
  wpc, clock, ignore_deadline, max_wait_time,
  \* the controlling thread: where the object is in its life ("config",
  \* "armed", "started", "destroyed"), the caller's position inside a call
  \* ("idle" between calls), the call it is in, GetReady's last argument and
  \* result
  phase, cpc, in_stop, in_dtor, ready_call,
  \* CLOCK_MONOTONIC
  now,
  \* history: pthread_join calls made on the spawned thread (2: two or more),
  \* ticks the running loop hook has taken, the reference at the start of the
  \* cycle, and for a ThreadClock driven directly: the reference when the
  \* present run of WaitUntilNext calls began, the calls of the run, and
  \* whether one of them returned false
  join_count, hook_dur, cycle_ref, wake_base, wake_count, wake_failed,
  \* history: Pause has returned and Unpause was not called since; a
  \* pthread_join with undefined behaviour has been made
  paused, bad_join,
  \* history: the timed lock of the present cycle timed out; how many times
  \* the init, end and emergency hooks were called (2: twice or more)
  timed_out, hook_calls,
  \* a GoldSoloWhistleDrive: the status word of input_pdos_, drive_state_, the
  \* state machine's current state, prev_state_, and whether an assertion of
  \* the state machine has failed
  drive,
  \* the CPU set of the Thread; history: the last SetCPUs call, its argument
  \* and whether it ended in HandleErrorEn
  cpu_set_, cpu_call

hookVars == <<init_fun_ptr_, init_fun_args_ptr_, loop_fun_ptr_, loop_fun_args_ptr_,
              end_fun_ptr_, end_fun_args_ptr_, emergency_exit_fun_ptr_,
              emergency_exit_fun_args_ptr_>>
flagVars == <<active_, run_, stop_cmd_recv_, rt_deadline_missed_>>
workerVars == <<wpc, clock, ignore_deadline, max_wait_time>>
callerVars == <<phase, cpc, in_stop, in_dtor, ready_call>>
histVars == <<join_count, hook_dur, cycle_ref, paused, bad_join, timed_out, hook_calls>>
wakeVars == <<wake_base, wake_count, wake_failed>>
cpuVars == <<cpu_set_, cpu_call>>
NoCall == [form |-> "none", arg |-> <<>>, fatal |-> FALSE]
\* all but the clock, the time and the history of a clock driven directly
threadVars == <<hookVars, policy, cycle_time_nsec_, flagVars, mutex_, spawned, wpc,
                ignore_deadline, max_wait_time, callerVars, histVars, drive, cpuVars>>
vars == <<hookVars, policy, cycle_time_nsec_, flagVars, mutex_, spawned,
          workerVars, callerVars, now, histVars, wakeVars, drive, cpuVars>>

\* ------------------------------------------------------------- Init
\* Thread::Thread(name) and InitDefault: no hook, policy SCHED_OTHER
\* (pthread_attr_init), nothing spawned; beside it a constructed drive.
InitThreadMembers ==
  /\ init_fun_ptr_ = NULL /\ init_fun_args_ptr_ = NULL
  /\ loop_fun_ptr_ = NULL /\ loop_fun_args_ptr_ = NULL
  /\ end_fun_ptr_ = NULL /\ end_fun_args_ptr_ = NULL
  /\ emergency_exit_fun_ptr_ = NULL /\ emergency_exit_fun_args_ptr_ = NULL
  /\ policy = SCHED_OTHER
  /\ cycle_time_nsec_ = kDefaultCycleNsec
  /\ active_ = FALSE /\ run_ = FALSE
  /\ stop_cmd_recv_ = FALSE /\ rt_deadline_missed_ = FALSE
  /\ mutex_ = "free"
  /\ spawned = FALSE
  /\ wpc = "none"
  /\ ignore_deadline = FALSE
  /\ max_wait_time = ZeroTime
  /\ in_stop = FALSE /\ in_dtor = FALSE
  /\ ready_call = [cycle_time_nsec |-> 0, ret |-> 0]
  /\ now = ZeroTime
  /\ join_count = 0 /\ hook_dur = 0 /\ cycle_ref = ZeroTime /\ paused = FALSE
  /\ bad_join = FALSE
  /\ timed_out = FALSE
  /\ hook_calls = [init |-> 0, end |-> 0, emergency |-> 0]
  /\ wake_base = ZeroTime /\ wake_count = 0 /\ wake_failed = FALSE
  /\ cpu_set_ = BuildCPUSet(ALL_CORES).cpu_set
  /\ cpu_call = NoCall
InitThread ==
  /\ InitThreadMembers
  /\ drive = NewDrive

Init ==
  /\ InitThread
  /\ clock = NewClock(kDefaultCycleNsec)
  /\ phase = "config" /\ cpc = "idle"

\* ------------------------------------------------------------- time
\* Where the worker spends time: blocked on the mutex, inside a hook, asleep.
\* Its own instructions in between take none.
TimedPcs == {"init_lock", "in_init", "init_sleep", "timedlock", "in_loop", "sleep"}

\* One tick of CLOCK_MONOTONIC passes. The epoch of the clock is arbitrary:
\* it is kept at the earliest time stamp in use.
Tick ==
  /\ wpc \in TimedPcs
  /\ Elapsed(clock, now) < MaxLag
  /\ LET n == Timespec(now.tv_sec + (now.tv_nsec + TickNs) \div kNanoSec2Sec,
                       (now.tv_nsec + TickNs) % kNanoSec2Sec)
         k == Min2(Ticks(n), Min2(Ticks(clock.time_), Ticks(cycle_ref)))
     IN /\ now' = Shift(n, k)
        /\ clock' = [clock EXCEPT !.time_ = Shift(@, k)]
        /\ cycle_ref' = Shift(cycle_ref, k)
        /\ max_wait_time' = IF wpc = "timedlock" THEN Shift(max_wait_time, k)
                            ELSE max_wait_time
  /\ hook_dur' = IF wpc = "in_loop" /\ hook_dur < MaxHookDur THEN hook_dur + 1
                 ELSE hook_dur
  /\ UNCHANGED <<hookVars, policy, cycle_time_nsec_, flagVars, mutex_, spawned,
                 wpc, ignore_deadline, callerVars, join_count, paused, bad_join,
                 timed_out, hook_calls, wakeVars, drive, cpuVars>>


\* ------------------------------------------------- Thread::TargetFun
\* The history of hook calls after one more call of hook h (threads.cpp:531,
\* 564, 575)
Called(h) == [hook_calls EXCEPT ![h] = IF @ < 2 THEN @ + 1 ELSE @]

\* threads.cpp:519: pthread_mutex_lock
TargetLock ==
  /\ wpc = "t_lock0"
  /\ mutex_ = "free"
  /\ mutex_' = "worker"
  /\ wpc' = "t_setup"
  /\ UNCHANGED <<hookVars, policy, cycle_time_nsec_, flagVars, spawned, clock,
                 ignore_deadline, max_wait_time, callerVars, now, histVars, wakeVars, drive, cpuVars>>

\* threads.cpp:520-522: tid_, SetThreadCPUs, unlock
TargetSetup ==
  /\ wpc = "t_setup"
  /\ mutex_' = "free"
  /\ wpc' = "t_clock"
  /\ UNCHANGED <<hookVars, policy, cycle_time_nsec_, flagVars, spawned, clock,
                 ignore_deadline, max_wait_time, callerVars, now, histVars, wakeVars, drive, cpuVars>>

\* threads.cpp:523-527: the clock, ignore_deadline, active_, and the test for
\* an init hook
TargetClock ==
  /\ wpc = "t_clock"
  /\ clock' = NewClock(cycle_time_nsec_)
  /\ ignore_deadline' = (policy = SCHED_OTHER)
  /\ active_' = TRUE
  /\ wpc' = IF init_fun_ptr_ # NULL THEN "init_reset" ELSE "outer"
  /\ UNCHANGED <<hookVars, policy, cycle_time_nsec_, run_, stop_cmd_recv_,
                 rt_deadline_missed_, mutex_, spawned, max_wait_time, callerVars,
                 now, histVars, wakeVars, drive, cpuVars>>

\* threads.cpp:529
InitReset ==
  /\ wpc = "init_reset"
  /\ clock' = Reset(clock, now)
  /\ cycle_ref' = now
  /\ wpc' = "init_lock"
  /\ UNCHANGED <<hookVars, policy, cycle_time_nsec_, flagVars, mutex_, spawned,
                 ignore_deadline, max_wait_time, callerVars, now, join_count,
                 hook_dur, paused, bad_join, timed_out, hook_calls, wakeVars, drive, cpuVars>>

\* threads.cpp:530-531: lock, and the init hook starts
InitLock ==
  /\ wpc = "init_lock"
  /\ mutex_ = "free"
  /\ mutex_' = "worker"
  /\ wpc' = "in_init"
  /\ hook_calls' = Called("init")
  /\ UNCHANGED <<hookVars, policy, cycle_time_nsec_, flagVars, spawned, clock,
                 ignore_deadline, max_wait_time, callerVars, now, join_count,
                 hook_dur, cycle_ref, paused, bad_join, timed_out, wakeVars, drive, cpuVars>>

\* threads.cpp:531-532: the init hook returns, unlock
InitReturn ==
  /\ wpc = "in_init"
  /\ mutex_' = "free"
  /\ wpc' = "init_wait"
  /\ UNCHANGED <<hookVars, policy, cycle_time_nsec_, flagVars, spawned, clock,
                 ignore_deadline, max_wait_time, callerVars, now, histVars, wakeVars, drive, cpuVars>>

\* threads.cpp:533 and 553 with clocks.cpp:47-51: WaitUntilNext up to the
\* sleep. Late: it returns false and the flag is !(false || ignore_deadline).
WaitStep(from, sleep_pc, late_pc) ==
  /\ wpc = from
  /\ clock' = WaitUntilNextClock(clock)
  /\ IF WaitUntilNextLate(clock, now)
       THEN /\ rt_deadline_missed_' = ~ignore_deadline
            /\ wpc' = late_pc
       ELSE /\ UNCHANGED rt_deadline_missed_
            /\ wpc' = sleep_pc
  /\ hook_dur' = 0
  /\ cycle_ref' = clock'.time_
  /\ UNCHANGED <<hookVars, policy, cycle_time_nsec_, active_, run_, stop_cmd_recv_,
                 mutex_, spawned, ignore_deadline, max_wait_time, callerVars, now,
                 join_count, paused, bad_join, timed_out, hook_calls, wakeVars, drive, cpuVars>>

\* clocks.cpp:52-55: clock_nanosleep(TIMER_ABSTIME) returns once the reference
\* is reached; WaitUntilNext returns true and the flag is !(true || ...)
SleepStep(from, to) ==
  /\ wpc = from
  /\ Elapsed(clock, now) >= 0
  /\ rt_deadline_missed_' = FALSE
  /\ wpc' = to
  /\ UNCHANGED <<hookVars, policy, cycle_time_nsec_, active_, run_, stop_cmd_recv_,
                 mutex_, spawned, clock, ignore_deadline, max_wait_time, callerVars,
                 now, histVars, wakeVars, drive, cpuVars>>

InitWait == WaitStep("init_wait", "init_sleep", "outer")
InitSleep == SleepStep("init_sleep", "outer")

\* threads.cpp:537-539: the outer loop's test, and Reset
OuterLoop ==
  /\ wpc = "outer"
  /\ IF stop_cmd_recv_ \/ rt_deadline_missed_
       THEN /\ wpc' = "exit_check"
            /\ UNCHANGED <<clock, cycle_ref>>
       ELSE /\ wpc' = "inner"
            /\ clock' = Reset(clock, now)
            /\ cycle_ref' = now
  /\ UNCHANGED <<hookVars, policy, cycle_time_nsec_, flagVars, mutex_, spawned,
                 ignore_deadline, max_wait_time, callerVars, now, join_count,
                 hook_dur, paused, bad_join, timed_out, hook_calls, wakeVars, drive, cpuVars>>

\* threads.cpp:540-542: the inner loop's test, and GetNextTime
InnerLoop ==
  /\ wpc = "inner"
  /\ IF rt_deadline_missed_
       THEN /\ wpc' = "outer"
            /\ UNCHANGED <<clock, max_wait_time, cycle_ref>>
       ELSE /\ wpc' = "timedlock"
            /\ clock' = GetNextTime(clock)
            /\ max_wait_time' = GetCurrentTime(GetNextTime(clock))
            /\ cycle_ref' = clock.time_
  /\ hook_dur' = 0
  /\ timed_out' = FALSE
  /\ UNCHANGED <<hookVars, policy, cycle_time_nsec_, flagVars, mutex_, spawned,
                 ignore_deadline, callerVars, now, join_count, paused, bad_join,
                 hook_calls, wakeVars, drive, cpuVars>>

\* threads.cpp:543: pthread_mutex_timedlock returns 0
TimedLockAcquire ==
  /\ wpc = "timedlock"
  /\ mutex_ = "free"
  /\ mutex_' = "worker"
  /\ wpc' = "locked"
  /\ max_wait_time' = ZeroTime
  /\ UNCHANGED <<hookVars, policy, cycle_time_nsec_, flagVars, spawned, clock,
                 ignore_deadline, callerVars, now, histVars, wakeVars, drive, cpuVars>>

\* threads.cpp:543: pthread_mutex_timedlock times out. Its deadline is read
\* on CLOCK_REALTIME while max_wait_time was taken from CLOCK_MONOTONIC, so
\* with the mutex held the timeout can come at any time.
\* TimedLockTimeoutIsMiss is the step with the timeout taken for a missed
\* deadline.
TimedLockTimeoutIsMiss ==
  /\ wpc = "timedlock"
  /\ mutex_ = "caller"
  /\ wpc' = "wait"
  /\ max_wait_time' = ZeroTime
  /\ timed_out' = TRUE
  /\ rt_deadline_missed_' = ~ignore_deadline
  /\ UNCHANGED <<hookVars, policy, cycle_time_nsec_, active_, run_, stop_cmd_recv_,
                 mutex_, spawned, clock, ignore_deadline, callerVars, now,
                 join_count, hook_dur, cycle_ref, paused, bad_join, hook_calls,
                 wakeVars, drive, cpuVars>>
TimedLockTimeout ==
  /\ wpc = "timedlock"
  /\ mutex_ = "caller"
  /\ wpc' = "wait"
  /\ max_wait_time' = ZeroTime
  /\ timed_out' = TRUE
  /\ UNCHANGED <<hookVars, policy, cycle_time_nsec_, flagVars, mutex_, spawned,
                 clock, ignore_deadline, callerVars, now, join_count, hook_dur,
                 cycle_ref, paused, bad_join, hook_calls, wakeVars, drive, cpuVars>>

\* threads.cpp:545-549: paused: unlock and break; running: go on to the hook.
\* RunCheckNoBreak is the step without the test of run_; RunCheckWaits is the
\* step with the break left out, so that a paused pass goes on to
\* WaitUntilNext.
RunCheckNoBreak ==
  /\ wpc = "locked"
  /\ wpc' = "call_loop"
  /\ UNCHANGED mutex_
RunCheckWaits ==
  /\ wpc = "locked"
  /\ IF ~run_
       THEN /\ mutex_' = "free"
            /\ wpc' = "wait"
       ELSE /\ wpc' = "call_loop"
            /\ UNCHANGED mutex_
RunCheck ==
  /\ wpc = "locked"
  /\ IF ~run_
       THEN /\ mutex_' = "free"
            /\ wpc' = "outer"
       ELSE /\ wpc' = "call_loop"
            /\ UNCHANGED mutex_
LockedStep ==
  /\ RunCheck
  /\ UNCHANGED <<hookVars, policy, cycle_time_nsec_, flagVars, spawned, clock,
                 ignore_deadline, max_wait_time, callerVars, now, histVars, wakeVars, drive, cpuVars>>

\* threads.cpp:550: the loop hook is called
LoopCall ==
  /\ wpc = "call_loop"
  /\ wpc' = "in_loop"
  /\ UNCHANGED <<hookVars, policy, cycle_time_nsec_, flagVars, mutex_, spawned,
                 clock, ignore_deadline, max_wait_time, callerVars, now, histVars,
                 wakeVars, drive, cpuVars>>

\* threads.cpp:550-551: the loop hook returns, unlock. LoopReturnKeepsLock is
\* the step without the unlock of line 551.
LoopReturnKeepsLock ==
  /\ wpc = "in_loop"
  /\ wpc' = "wait"
  /\ UNCHANGED <<hookVars, policy, cycle_time_nsec_, flagVars, mutex_, spawned, clock,
                 ignore_deadline, max_wait_time, callerVars, now, histVars, wakeVars, drive, cpuVars>>
LoopReturn ==
  /\ wpc = "in_loop"
  /\ mutex_' = "free"
  /\ wpc' = "wait"
  /\ UNCHANGED <<hookVars, policy, cycle_time_nsec_, flagVars, spawned, clock,
                 ignore_deadline, max_wait_time, callerVars, now, histVars, wakeVars, drive, cpuVars>>

LoopWait == WaitStep("wait", "sleep", "inner")
LoopSleep == SleepStep("sleep", "inner")

\* threads.cpp:557-561 and 572: which exit is taken
EmergencyHookSet == emergency_exit_fun_args_ptr_ # NULL
\* ExitCheckNoMissTest is the exit without the test of line 557.
ExitCheckNoMissTest ==
  /\ wpc = "exit_check"
  /\ wpc' = IF end_fun_ptr_ # NULL THEN "end_lock" ELSE "done"
  /\ UNCHANGED <<hookVars, policy, cycle_time_nsec_, flagVars, mutex_, spawned,
                 clock, ignore_deadline, max_wait_time, callerVars, now, histVars,
                 wakeVars, drive, cpuVars>>
ExitCheck ==
  /\ wpc = "exit_check"
  /\ wpc' = IF rt_deadline_missed_
              THEN (IF EmergencyHookSet THEN "emerg_lock" ELSE "emerg_fin")
              ELSE (IF end_fun_ptr_ # NULL THEN "end_lock" ELSE "done")
  /\ UNCHANGED <<hookVars, policy, cycle_time_nsec_, flagVars, mutex_, spawned,
                 clock, ignore_deadline, max_wait_time, callerVars, now, histVars,
                 wakeVars, drive, cpuVars>>

\* threads.cpp:563-564 and 574-575: lock, and the hook starts
ExitLock(from, to) ==
  /\ wpc = from
  /\ mutex_ = "free"
  /\ mutex_' = "worker"
  /\ wpc' = to
  /\ hook_calls' = Called(IF to = "in_end" THEN "end" ELSE "emergency")
  /\ UNCHANGED <<hookVars, policy, cycle_time_nsec_, flagVars, spawned, clock,
                 ignore_deadline, max_wait_time, callerVars, now, join_count,
                 hook_dur, cycle_ref, paused, bad_join, timed_out, wakeVars, drive, cpuVars>>
\* threads.cpp:564-565 and 575-577: the hook returns, unlock
ExitReturn(from, to) ==
  /\ wpc = from
  /\ mutex_' = "free"
  /\ wpc' = to
  /\ UNCHANGED <<hookVars, policy, cycle_time_nsec_, flagVars, spawned, clock,
                 ignore_deadline, max_wait_time, callerVars, now, histVars, wakeVars, drive, cpuVars>>

EmergencyLock == ExitLock("emerg_lock", "in_emerg")
EmergencyReturn == ExitReturn("in_emerg", "emerg_fin")
EndLock == ExitLock("end_lock", "in_end")
EndReturn == ExitReturn("in_end", "done")

\* threads.cpp:567-569
EmergencyFinish ==
  /\ wpc = "emerg_fin"
  /\ run_' = FALSE
  /\ active_' = FALSE
  /\ wpc' = "done"
  /\ UNCHANGED <<hookVars, policy, cycle_time_nsec_, stop_cmd_recv_,
                 rt_deadline_missed_, mutex_, spawned, clock, ignore_deadline,
                 max_wait_time, callerVars, now, histVars, wakeVars, drive, cpuVars>>

Worker ==
  \/ TargetLock \/ TargetSetup \/ TargetClock
  \/ InitReset \/ InitLock \/ InitReturn \/ InitWait \/ InitSleep
  \/ OuterLoop \/ InnerLoop \/ TimedLockAcquire \/ TimedLockTimeout
  \/ LockedStep \/ LoopCall \/ LoopReturn \/ LoopWait \/ LoopSleep
  \/ ExitCheck \/ EmergencyLock \/ EmergencyReturn \/ EmergencyFinish
  \/ EndLock \/ EndReturn


\* ------------------------------------------------ the public interface
\* Thread::IsActive and Thread::IsRunning (threads.h)
IsActive == active_
IsRunning == run_

\* The hooks a caller installs: nothing, or a function with its context; the
\* emergency hook also with a null context.
HookArgs == {<<NULL, NULL>>, <<"fun", "args">>}
EmergencyHookArgs == HookArgs \cup {<<"fun", NULL>>}

\* threads.cpp:295-304
SetInitFuncCode(fun_ptr, args) ==
  /\ init_fun_ptr_' = fun_ptr
  /\ init_fun_args_ptr_' = args
  /\ UNCHANGED <<loop_fun_ptr_, loop_fun_args_ptr_, end_fun_ptr_, end_fun_args_ptr_,
                 emergency_exit_fun_ptr_, emergency_exit_fun_args_ptr_, policy,
                 cycle_time_nsec_, flagVars, mutex_, spawned, workerVars, callerVars,
                 now, histVars, wakeVars, drive, cpuVars>>

\* threads.cpp:306-321. SetLoopFuncAlways is the call without the test of
\* line 308.
SetLoopFuncAlways(fun_ptr, args) ==
  /\ loop_fun_ptr_' = fun_ptr
  /\ loop_fun_args_ptr_' = args
  /\ UNCHANGED <<init_fun_ptr_, init_fun_args_ptr_, end_fun_ptr_, end_fun_args_ptr_,
                 emergency_exit_fun_ptr_, emergency_exit_fun_args_ptr_, policy,
                 cycle_time_nsec_, flagVars, mutex_, spawned, workerVars, callerVars,
                 now, histVars, wakeVars, drive, cpuVars>>
SetLoopFuncCode(fun_ptr, args) ==
  /\ IF IsRunning
       THEN UNCHANGED <<loop_fun_ptr_, loop_fun_args_ptr_>>
       ELSE /\ loop_fun_ptr_' = fun_ptr
            /\ loop_fun_args_ptr_' = args
  /\ UNCHANGED <<init_fun_ptr_, init_fun_args_ptr_, end_fun_ptr_, end_fun_args_ptr_,
                 emergency_exit_fun_ptr_, emergency_exit_fun_args_ptr_, policy,
                 cycle_time_nsec_, flagVars, mutex_, spawned, workerVars, callerVars,
                 now, histVars, wakeVars, drive, cpuVars>>

\* threads.cpp:323-333
SetEndFuncCode(fun_ptr, args) ==
  /\ end_fun_ptr_' = fun_ptr
  /\ end_fun_args_ptr_' = args
  /\ UNCHANGED <<init_fun_ptr_, init_fun_args_ptr_, loop_fun_ptr_, loop_fun_args_ptr_,
                 emergency_exit_fun_ptr_, emergency_exit_fun_args_ptr_, policy,
                 cycle_time_nsec_, flagVars, mutex_, spawned, workerVars, callerVars,
                 now, histVars, wakeVars, drive, cpuVars>>

\* threads.cpp:335-345
SetEmergencyExitFuncCode(fun_ptr, args) ==
  /\ emergency_exit_fun_ptr_' = fun_ptr
  /\ emergency_exit_fun_args_ptr_' = args
  /\ UNCHANGED <<init_fun_ptr_, init_fun_args_ptr_, loop_fun_ptr_, loop_fun_args_ptr_,
                 end_fun_ptr_, end_fun_args_ptr_, policy,
                 cycle_time_nsec_, flagVars, mutex_, spawned, workerVars, callerVars,
                 now, histVars, wakeVars, drive, cpuVars>>

\* threads.cpp:258-293: the policy goes into attr_ (the priority is not
\* read by anything modelled here)
SetSchedAttrCode(pol) ==
  /\ policy' = pol
  /\ UNCHANGED <<hookVars, cycle_time_nsec_, flagVars, mutex_, spawned, workerVars,
                 callerVars, now, histVars, wakeVars, drive, cpuVars>>

\* The calls above, made before GetReady
Configuring == phase = "config" /\ cpc = "idle"
SetInitFunc(fun_ptr, args) == Configuring /\ SetInitFuncCode(fun_ptr, args)
SetLoopFunc(fun_ptr, args) == Configuring /\ SetLoopFuncCode(fun_ptr, args)
SetEndFunc(fun_ptr, args) == Configuring /\ SetEndFuncCode(fun_ptr, args)
SetEmergencyExitFunc(fun_ptr, args) ==
  Configuring /\ SetEmergencyExitFuncCode(fun_ptr, args)
SetSchedAttr(pol) == Configuring /\ SetSchedAttrCode(pol)

\* threads.cpp:377-386. GetReadyUnchecked is GetReady with the early return
\* of line 380 coming after the assignments.
GetReadyUnchecked(cycle_time_nsec) ==
  /\ cycle_time_nsec_' = cycle_time_nsec
  /\ active_' = TRUE
  /\ run_' = TRUE
  /\ ready_call' = [cycle_time_nsec |-> cycle_time_nsec,
                    ret |-> IF loop_fun_ptr_ = NULL THEN EFAULT ELSE 0]
  /\ phase' = IF loop_fun_ptr_ = NULL THEN phase ELSE "armed"
GetReadyCode(cycle_time_nsec) ==
  IF loop_fun_ptr_ = NULL
    THEN /\ ready_call' = [cycle_time_nsec |-> cycle_time_nsec, ret |-> EFAULT]
         /\ UNCHANGED <<cycle_time_nsec_, active_, run_, phase>>
    ELSE /\ cycle_time_nsec_' = cycle_time_nsec
         /\ active_' = TRUE
         /\ run_' = TRUE
         /\ ready_call' = [cycle_time_nsec |-> cycle_time_nsec, ret |-> 0]
         /\ phase' = "armed"
GetReady(cycle_time_nsec) ==
  /\ phase = "config" /\ cpc = "idle"
  /\ GetReadyCode(cycle_time_nsec)
  /\ UNCHANGED <<hookVars, policy, stop_cmd_recv_, rt_deadline_missed_, mutex_,
                 spawned, workerVars, cpc, in_stop, in_dtor, now, histVars, wakeVars, drive, cpuVars>>

\* THREAD_RUN (threads.h): pthread_create of TargetFun on thread_id_
Start ==
  /\ phase = "armed" /\ cpc = "idle"
  /\ spawned' = TRUE
  /\ wpc' = "t_lock0"
  /\ phase' = "started"
  /\ UNCHANGED <<hookVars, policy, cycle_time_nsec_, flagVars, mutex_, clock,
                 ignore_deadline, max_wait_time, cpc, in_stop, in_dtor, ready_call,
                 now, histVars, wakeVars, drive, cpuVars>>

\* threads.cpp:388-390 (Pause) and 399 (Unpause): pthread_mutex_lock.
\* CallerLockNoWait is the call without the lock taken.
CallerLockNoWait(from, to) ==
  /\ cpc = from
  /\ cpc' = to
  /\ UNCHANGED mutex_
CallerLock(from, to) ==
  /\ cpc = from
  /\ mutex_ = "free"
  /\ mutex_' = "caller"
  /\ cpc' = to

\* threads.cpp:388-390: Pause is called and has the mutex
PauseLock ==
  /\ phase = "started"
  /\ CallerLock("idle", "pause_set")
  /\ UNCHANGED <<hookVars, policy, cycle_time_nsec_, flagVars, spawned, workerVars,
                 phase, in_stop, in_dtor, ready_call, now, histVars, wakeVars, drive, cpuVars>>

\* threads.cpp:410 and 390: Pause called by Stop has the mutex
StopPauseLock ==
  /\ CallerLock("stop_pause", "pause_set")
  /\ UNCHANGED <<hookVars, policy, cycle_time_nsec_, flagVars, spawned, workerVars,
                 phase, in_stop, in_dtor, ready_call, now, histVars, wakeVars, drive, cpuVars>>

\* threads.cpp:391-393: run_ = false, unlock, return (to Stop when it called)
PauseSet ==
  /\ cpc = "pause_set"
  /\ run_' = FALSE
  /\ mutex_' = "free"
  /\ cpc' = IF in_stop THEN "stop_join" ELSE "idle"
  /\ paused' = TRUE
  /\ UNCHANGED <<hookVars, policy, cycle_time_nsec_, active_, stop_cmd_recv_,
                 rt_deadline_missed_, spawned, workerVars, phase, in_stop, in_dtor,
                 ready_call, now, join_count, hook_dur, cycle_ref, bad_join,
                 timed_out, hook_calls,
                 wakeVars, drive, cpuVars>>

\* threads.cpp:395-399: Unpause is called: nothing happens unless IsActive;
\* else it has the mutex
UnpauseLock ==
  /\ phase = "started"
  /\ IF IsActive
       THEN CallerLock("idle", "unpause_set")
       ELSE cpc = "idle" /\ UNCHANGED <<cpc, mutex_>>
  /\ paused' = FALSE
  /\ UNCHANGED <<hookVars, policy, cycle_time_nsec_, flagVars, spawned, workerVars,
                 phase, in_stop, in_dtor, ready_call, now, join_count, hook_dur,
                 cycle_ref, bad_join, timed_out, hook_calls, wakeVars, drive, cpuVars>>

\* threads.cpp:400-401: run_ = false (sic), unlock
UnpauseSet ==
  /\ cpc = "unpause_set"
  /\ run_' = FALSE
  /\ mutex_' = "free"
  /\ cpc' = "idle"
  /\ UNCHANGED <<hookVars, policy, cycle_time_nsec_, active_, stop_cmd_recv_,
                 rt_deadline_missed_, spawned, workerVars, phase, in_stop, in_dtor,
                 ready_call, now, histVars, wakeVars, drive, cpuVars>>

\* threads.cpp:405-410, 417 and 205-207: Stop is called, by the caller or by
\* the destructor; which branch it takes
StopEnter(dtor) ==
  /\ phase # "destroyed" /\ cpc = "idle"
  /\ IF IsActive
       THEN /\ stop_cmd_recv_' = TRUE
            /\ cpc' = "stop_pause"
            /\ in_stop' = TRUE
            /\ in_dtor' = dtor
            /\ UNCHANGED phase
       ELSE IF rt_deadline_missed_
         THEN /\ cpc' = "stop_join_dm"
              /\ in_stop' = TRUE
              /\ in_dtor' = dtor
              /\ UNCHANGED <<stop_cmd_recv_, phase>>
         ELSE /\ phase' = IF dtor THEN "destroyed" ELSE phase
              /\ UNCHANGED <<stop_cmd_recv_, cpc, in_stop, in_dtor>>
  /\ UNCHANGED <<hookVars, policy, cycle_time_nsec_, active_, run_,
                 rt_deadline_missed_, mutex_, spawned, workerVars, ready_call, now,
                 histVars, wakeVars, drive, cpuVars>>

\* pthread_join(thread_id_): returns when the thread has ended. Joining what
\* was never created, or was joined before, is undefined: the call may return
\* an error at once or never return.
Joinable == spawned /\ join_count = 0
JoinReturns == IF Joinable THEN wpc = "done" ELSE TRUE
JoinMayHang == ~Joinable
Joined == IF spawned /\ join_count < 2 THEN join_count + 1 ELSE join_count

\* Stop returns (and with it the destructor)
StopReturn ==
  /\ cpc' = "idle"
  /\ in_stop' = FALSE
  /\ in_dtor' = FALSE
  /\ phase' = IF in_dtor THEN "destroyed" ELSE phase

\* threads.cpp:411-415
StopJoin ==
  /\ cpc = "stop_join"
  /\ JoinReturns
  /\ join_count' = Joined
  /\ bad_join' = (bad_join \/ ~Joinable)
  /\ active_' = FALSE
  /\ stop_cmd_recv_' = FALSE
  /\ StopReturn
  /\ UNCHANGED <<hookVars, policy, cycle_time_nsec_, run_, rt_deadline_missed_,
                 mutex_, spawned, workerVars, ready_call, now, hook_dur, cycle_ref,
                 paused, timed_out, hook_calls, wakeVars, drive, cpuVars>>

\* threads.cpp:419-422
StopJoinMissed ==
  /\ cpc = "stop_join_dm"
  /\ JoinReturns
  /\ join_count' = Joined
  /\ bad_join' = (bad_join \/ ~Joinable)
  /\ rt_deadline_missed_' = FALSE
  /\ StopReturn
  /\ UNCHANGED <<hookVars, policy, cycle_time_nsec_, active_, run_, stop_cmd_recv_,
                 mutex_, spawned, workerVars, ready_call, now, hook_dur, cycle_ref,
                 paused, timed_out, hook_calls, wakeVars, drive, cpuVars>>

\* threads.cpp:411 and 419: the undefined pthread_join that never returns
JoinHangs ==
  /\ cpc \in {"stop_join", "stop_join_dm"}
  /\ JoinMayHang
  /\ join_count' = Joined
  /\ bad_join' = TRUE
  /\ cpc' = "hung"
  /\ UNCHANGED <<hookVars, policy, cycle_time_nsec_, flagVars, mutex_, spawned,
                 workerVars, phase, in_stop, in_dtor, ready_call, now, hook_dur,
                 cycle_ref, paused, timed_out, hook_calls, wakeVars, drive, cpuVars>>

\* The calls a caller may begin: configuration, GetReady, and the calls on
\* an armed or started worker
CallerConfig ==
  \/ \E h \in HookArgs : SetInitFunc(h[1], h[2])
  \/ \E h \in HookArgs : SetLoopFunc(h[1], h[2])
  \/ \E h \in HookArgs : SetEndFunc(h[1], h[2])
  \/ \E h \in EmergencyHookArgs : SetEmergencyExitFunc(h[1], h[2])
  \/ \E pol \in Policies : SetSchedAttr(pol)
CallerRun ==
  \/ Start
  \/ PauseLock
  \/ UnpauseLock
  \/ StopEnter(FALSE)
  \/ StopEnter(TRUE)
CallerCall ==
  \/ CallerConfig
  \/ \E p \in Periods : GetReady(p)
  \/ CallerRun
\* The steps that carry a call on
CallerProgress ==
  \/ StopPauseLock \/ PauseSet \/ UnpauseSet
  \/ StopJoin \/ StopJoinMissed
Caller == CallerCall \/ CallerProgress \/ JoinHangs

Next_ == Worker \/ Caller \/ Tick
Spec == Init /\ [][Next_]_vars

\* ------------------------------- reconfiguration of a started worker
\* (libgrabrt_test.cpp:120-124): the same calls made between other calls
\* once the execution context was spawned. One cycle time is used, the
\* shortest.
Reconfiguring == phase = "started" /\ cpc = "idle"
Reconfigure ==
  \/ \E h \in HookArgs : Reconfiguring /\ SetInitFuncCode(h[1], h[2])
  \/ \E h \in HookArgs : Reconfiguring /\ SetLoopFuncCode(h[1], h[2])
  \/ \E h \in HookArgs : Reconfiguring /\ SetEndFuncCode(h[1], h[2])
  \/ \E h \in EmergencyHookArgs :
       Reconfiguring /\ SetEmergencyExitFuncCode(h[1], h[2])
  \/ \E pol \in Policies : Reconfiguring /\ SetSchedAttrCode(pol)
ReconfPeriod == 2 * TickNs
NextReconf ==
  \/ Worker \/ Tick
  \/ CallerConfig \/ GetReady(ReconfPeriod) \/ CallerRun
  \/ CallerProgress \/ JoinHangs
  \/ Reconfigure
SpecReconf == Init /\ [][NextReconf]_vars


\* ------------------------------------- a ThreadClock driven directly
\* (libgrabrt_test.cpp:77-105): the caller constructs a clock and calls its
\* methods; no worker is involved.
ClockPeriods == Periods \cup {(TicksPerSec + 1) * TickNs}

InitClock ==
  /\ InitThread
  /\ \E p \in ClockPeriods : clock = NewClock(p)
  /\ phase = "clock" /\ cpc = "idle"

\* clocks.cpp:27-31
ClockReset ==
  /\ phase = "clock"
  /\ clock' = Reset(clock, now)
  /\ wake_base' = now
  /\ wake_count' = 0
  /\ wake_failed' = FALSE
  /\ UNCHANGED <<threadVars, now>>

\* clocks.cpp:47-56: late, WaitUntilNext returns false at once; else it
\* returns true when clock_nanosleep has slept until the reference
ClockWaitUntilNext ==
  /\ phase = "clock"
  /\ wake_count < MaxWaits
  /\ Ticks(clock.time_) < MaxClockTicks
  /\ clock' = WaitUntilNextClock(clock)
  /\ IF WaitUntilNextLate(clock, now)
       THEN /\ wake_failed' = TRUE
            /\ UNCHANGED now
       ELSE /\ now' = clock'.time_
            /\ UNCHANGED wake_failed
  /\ wake_count' = wake_count + 1
  /\ UNCHANGED <<threadVars, wake_base>>

\* clocks.cpp:58-62
ClockGetNextTime ==
  /\ phase = "clock"
  /\ Ticks(clock.time_) < MaxClockTicks
  /\ clock' = GetNextTime(clock)
  /\ wake_base' = clock'.time_
  /\ wake_count' = 0
  /\ wake_failed' = FALSE
  /\ UNCHANGED <<threadVars, now>>

\* a tick of CLOCK_MONOTONIC passes between two calls
ClockTick ==
  /\ phase = "clock"
  /\ Ticks(now) < MaxClockTicks
  /\ now' = FromTicks(Ticks(now) + 1)
  /\ UNCHANGED <<threadVars, clock, wakeVars>>

NextClock == ClockReset \/ ClockWaitUntilNext \/ ClockGetNextTime \/ ClockTick
SpecClock == InitClock /\ [][NextClock]_vars

\* C2: over a run of consecutive WaitUntilNext calls on a clock, whether they
\* returned true or false, the reference after the k-th call is the reference
\* the run began with plus k periods, as a well-formed timespec.
C2_WakeInstantsExactlyPeriodApart ==
  phase = "clock" =>
    /\ WellFormed(clock.time_)
    /\ Ticks(clock.time_) =
         Ticks(wake_base) + wake_count * (clock.period_nsec_ \div TickNs)
\* Three calls in a row, one of them late, the seconds carried at least once.
C2_Witness ==
  /\ phase = "clock"
  /\ wake_count >= 3
  /\ wake_failed
  /\ clock.time_.tv_sec > wake_base.tv_sec
  /\ clock.time_.tv_nsec # wake_base.tv_nsec


\* ---------------------------------------------------------- fairness
\* Fair scheduling: a thread that can run, or can run again and again (a
\* mutex it waits for is freed again and again), does run; time passes. A
\* caller need not begin another call.
Fairness ==
  /\ SF_vars(Worker)
  /\ SF_vars(CallerProgress)
  /\ WF_vars(Tick)
FairSpec == Spec /\ Fairness

\* -------------------------------------------------------- properties
PeriodTicks == clock.period_nsec_ \div TickNs
\* the step of TargetFun that ends a cycle of the inner loop (threads.cpp:553)
CycleEnds == wpc = "wait" /\ wpc' # wpc
\* the step that invokes the loop hook (threads.cpp:550)
LoopHookStarts == wpc # "in_loop" /\ wpc' = "in_loop"

\* C1: over every executed cycle of the worker loop the clock reference
\* advances by exactly one period.
C1_ReferenceAdvancesOnePeriodPerCycle ==
  [][CycleEnds => Ticks(clock'.time_) = Ticks(cycle_ref) + PeriodTicks]_vars

\* C3: under a real-time policy a loop hook invocation that lasts longer than
\* the period makes the worker set the deadline-missed flag at the end of
\* that cycle.
C3_OverrunSetsDeadlineMissed ==
  [][(CycleEnds /\ ~ignore_deadline /\ hook_dur > PeriodTicks)
       => rt_deadline_missed_']_vars

\* C4: on a deadline miss the emergency hook is invoked, under the lock,
\* whenever an emergency hook function is set, whatever its context pointer.
C4_EmergencyHookRunsWheneverSet ==
  [][(wpc = "exit_check" /\ wpc' # wpc /\ rt_deadline_missed_
        /\ emergency_exit_fun_ptr_ # NULL)
       => wpc' = "emerg_lock"]_vars

\* C5: when Unpause returns on a started, paused worker, IsRunning() is true.
C5_ResumeMakesRunning ==
  [][(cpc = "unpause_set" /\ cpc' = "idle") => IsRunning']_vars

C7_NoLoopHookWhilePaused ==
  [][paused => ~LoopHookStarts]_vars
\* Pause has returned while the worker, not stopped, goes round its loop.
C7_Witness ==
  /\ paused /\ phase = "started" /\ cpc = "idle"
  /\ ~stop_cmd_recv_ /\ ~rt_deadline_missed_
  /\ wpc = "locked"

\* C8: as long as no pthread_join with undefined behaviour was made on the
\* object, a Stop called on a spawned worker that was not joined yet returns,
\* and when it returns the worker has ended and IsActive() is false; it
\* never finds a worker that has not ended neither active nor flagged, which
\* would make it return at once.
Defined == ~bad_join
StopPending ==
  /\ cpc \in {"stop_pause", "pause_set", "stop_join", "stop_join_dm"} /\ in_stop
  /\ Joinable /\ Defined
StopReturned == cpc = "idle" /\ ~in_stop /\ wpc = "done" /\ ~IsActive
C8_StopReturnsWithWorkerEnded ==
  /\ [](Joinable /\ Defined /\ wpc # "done" => IsActive \/ rt_deadline_missed_)
  /\ [][(in_stop /\ ~in_stop' /\ Joinable /\ Defined)
          => (wpc' = "done" /\ ~IsActive')]_vars
  /\ (StopPending ~> StopReturned)
\* Stop was called while the loop hook was running, and has returned.
C8_Witness ==
  /\ StopReturned /\ join_count = 1 /\ Defined /\ phase = "started"
  /\ end_fun_ptr_ # NULL

\* C9: a spawned execution context is joined at most once, whatever Stop
\* calls are made.
C9_JoinedAtMostOnce == join_count <= 1

\* C10: GetReady returns non-zero iff no loop callback is set; then the
\* period, active_ and run_ are as before, and the worker is not armed; when
\* it returns 0 the period passed is recorded.
GetReadyReturns ==
  /\ phase = "config" /\ cpc = "idle"
  /\ phase' = "armed" \/ ready_call' # ready_call
C10_ArmFailsIffNoLoopHook ==
  [][GetReadyReturns =>
       /\ (ready_call'.ret # 0) <=> (loop_fun_ptr_ = NULL)
       /\ ready_call'.ret # 0 =>
            /\ ready_call'.ret = EFAULT
            /\ UNCHANGED <<cycle_time_nsec_, active_, run_, phase>>
       /\ ready_call'.ret = 0 =>
            /\ cycle_time_nsec_' = ready_call'.cycle_time_nsec
            /\ phase' = "armed"]_vars
\* GetReady has failed on an object without a loop callback.
C10_Witness ==
  /\ ready_call.ret = EFAULT
  /\ ready_call.cycle_time_nsec \in Periods
  /\ loop_fun_ptr_ = NULL
  /\ cycle_time_nsec_ = kDefaultCycleNsec /\ ~active_ /\ ~run_

\* The steps that read or write the run flag or the scheduling attributes:
\* by the caller (Pause 391, Unpause 400, GetReady 384, SetSchedAttr 261-287)
\* and by the worker (TargetFun 524, 545, 567).
CallerAccessesShared ==
  \/ cpc \in {"pause_set", "unpause_set"} /\ cpc' # cpc
  \/ phase = "config" /\ phase' = "armed"
  \/ policy' # policy
WorkerAccessesShared ==
  \/ wpc \in {"t_clock", "locked", "emerg_fin"} /\ wpc' # wpc

\* C11: while the execution context exists, every step of the caller or of
\* the worker that reads or writes the run flag or the scheduling attributes
\* is taken with the mutex held by the thread that takes it.
WorkerLives == spawned /\ wpc # "done"
C11_SharedStateAccessedUnderLock ==
  [][WorkerLives =>
       /\ CallerAccessesShared => mutex_ = "caller"
       /\ WorkerAccessesShared => mutex_ = "worker"]_vars

\* C13: when the timed lock of a cycle times out, the worker goes to the
\* cycle boundary with the deadline-missed flag as it was and without calling
\* the loop hook; the wait at that boundary sets the flag only if the time is
\* past the new reference, and does not when the timeout came by the lock's
\* deadline.
TimedLockTimesOut == wpc = "timedlock" /\ wpc' = "wait"
C13_LockTimeoutSkipsBodyOnly ==
  [][/\ TimedLockTimesOut =>
          /\ rt_deadline_missed_' = rt_deadline_missed_
          /\ ~LoopHookStarts
          /\ timed_out'
     /\ (timed_out /\ CycleEnds) =>
          /\ rt_deadline_missed_' => Elapsed(clock', now) > 0
          /\ Elapsed(clock, now) <= 0 => (~rt_deadline_missed_' /\ wpc' = "sleep")]_vars
\* After a timeout under a real-time policy the worker sleeps at the boundary.
C13_Witness ==
  /\ timed_out /\ wpc = "sleep" /\ ~ignore_deadline /\ ~rt_deadline_missed_
  /\ phase = "started"

\* C12: the deadline-missed flag is never raised while the scheduling policy
\* is SCHED_OTHER; while it is SCHED_FIFO or SCHED_RR a WaitUntilNext that
\* fails raises it, and with the flag raised the inner and the outer loop end.
FlagRaised == ~rt_deadline_missed_ /\ rt_deadline_missed_'
BoundaryWaitFails ==
  wpc \in {"init_wait", "wait"} /\ wpc' # wpc /\ WaitUntilNextLate(clock, now)
C12_DeadlineMissOnlyUnderRealTimePolicy ==
  [][/\ FlagRaised => policy # SCHED_OTHER
     /\ (BoundaryWaitFails /\ policy # SCHED_OTHER) => rt_deadline_missed_'
     /\ (wpc = "inner" /\ wpc' # wpc /\ rt_deadline_missed_) => wpc' = "outer"
     /\ (wpc = "outer" /\ wpc' # wpc /\ rt_deadline_missed_) => wpc' = "exit_check"]_vars

\* C14: while the worker is active the stored init, end and emergency hooks
\* and their contexts do not change, whatever setter is called.
C14_SettersRejectedOnceActive ==
  [][IsActive => UNCHANGED <<init_fun_ptr_, init_fun_args_ptr_, end_fun_ptr_,
                            end_fun_args_ptr_, emergency_exit_fun_ptr_,
                            emergency_exit_fun_args_ptr_>>]_vars

\* C15: while the run flag is set the stored loop hook and its context do
\* not change, whatever is called; a SetLoopFunc call made while the run flag
\* is clear, before or after the start, stores the given hook and context.
C15_LoopHookFixedWhileRunning ==
  [][/\ IsRunning => UNCHANGED <<loop_fun_ptr_, loop_fun_args_ptr_>>
     /\ \A h \in HookArgs :
          (~IsRunning /\ cpc = "idle" /\ SetLoopFuncCode(h[1], h[2]))
            => (loop_fun_ptr_' = h[1] /\ loop_fun_args_ptr_' = h[2])]_vars
\* A started worker is alive and paused and the stored loop hook is none: it
\* was replaced while the run flag was clear (GetReady refuses to arm a
\* thread without a loop hook).
C15_Witness ==
  /\ phase = "started" /\ WorkerLives /\ ~IsRunning
  /\ loop_fun_ptr_ = NULL

\* the worker is inside a hook (threads.cpp:531, 550, 564, 575)
InHook == wpc \in {"in_init", "in_loop", "in_emerg", "in_end"}
\* the worker function returns (threads.cpp:569 and 578)
WorkerReturns == wpc # "done" /\ wpc' = "done"
InitPcs == {"init_reset", "init_lock", "in_init", "init_wait", "init_sleep"}
NoHookRan == [init |-> 0, end |-> 0, emergency |-> 0]
NsBetween(a, b) == (b.tv_sec - a.tv_sec) * kNanoSec2Sec + (b.tv_nsec - a.tv_nsec)
\* C17: for every reference and period a directly driven clock reaches,
\* Next() yields a reference exactly one period later with
\* 0 <= tv_nsec < 10^9; and after one advance the reference is one period,
\* in nanoseconds, past the reference the advance started from.
C17_NextAddsExactlyOnePeriod ==
  phase = "clock" =>
    /\ 0 <= clock.time_.tv_nsec /\ clock.time_.tv_nsec < kNanoSec2Sec
    /\ NsBetween(clock.time_, Next(clock).time_) = clock.period_nsec_
    /\ 0 <= Next(clock).time_.tv_nsec
    /\ Next(clock).time_.tv_nsec < kNanoSec2Sec
    /\ wake_count = 1 => NsBetween(wake_base, clock.time_) = clock.period_nsec_
\* One advance by a period of more than a second has wrapped the nanoseconds
\* and carried two seconds.
C17_Witness ==
  /\ phase = "clock" /\ wake_count = 1
  /\ clock.period_nsec_ > kNanoSec2Sec
  /\ clock.time_.tv_nsec < wake_base.tv_nsec
  /\ clock.time_.tv_sec = wake_base.tv_sec + 2

\* a WaitUntilNext call on a directly driven clock
WaitUntilNextCalled == phase = "clock" /\ wake_count' = wake_count + 1
\* C18: a WaitUntilNext call leaves the reference exactly one period later,
\* whatever it returns; if the current time is strictly later than the new
\* reference the call fails and no time passes in it; otherwise the call
\* returns at the new reference and does not fail.
C18_WaitUntilNextFailsOrSleeps ==
  [][WaitUntilNextCalled =>
       /\ NsBetween(clock.time_, clock'.time_) = clock.period_nsec_
       /\ clock'.period_nsec_ = clock.period_nsec_
       /\ IF Ticks(now) > Ticks(clock'.time_)
            THEN wake_failed' /\ now' = now
            ELSE /\ now' = clock'.time_
                 /\ wake_failed' = wake_failed]_vars
\* Two calls in a row: the first was late and failed, the second slept until
\* its reference.
C18_Witness ==
  /\ phase = "clock" /\ wake_count = 2 /\ wake_failed
  /\ now = clock.time_
  /\ Ticks(now) > Ticks(wake_base) + 2

\* C19: on every clock a caller can hold, with t the reference read by
\* GetCurrentTime, GetNextTime returns t plus one period and a
\* SetAndGetNextTime called right after it returns t plus one period too.
C19_GetNextTimeLeavesSchedule ==
  phase = "clock" =>
    LET t == GetCurrentTime(clock)
        afterGet == GetNextTime(clock)
        afterSet == SetAndGetNextTime(afterGet)
        period == clock.period_nsec_ \div TickNs
    IN /\ Ticks(GetCurrentTime(afterGet)) = Ticks(t) + period
       /\ Ticks(GetCurrentTime(afterSet)) = Ticks(t) + period


\* ------------------------------- a GoldSoloWhistleDrive used cyclically
\* The drive is constructed; the application calls ReadInputs on what the bus
\* delivers, the events, and WriteOutputs. No thread is involved.
InitDrive ==
  /\ InitThreadMembers
  /\ clock = NewClock(kDefaultCycleNsec)
  /\ phase = "drive" /\ cpc = "idle"
  /\ \E u \in Uninitialized : drive = NewDriveOn(u)

\* a call on the drive is possible: the program has not ended on an assertion
DriveLives == phase = "drive" /\ ~drive.asserted
\* what no call on the drive touches
driveRest == <<hookVars, policy, cycle_time_nsec_, flagVars, mutex_, spawned,
               workerVars, callerVars, now, histVars, wakeVars, cpuVars>>

\* goldsolowhistledrive.cpp:135-158
ReadInputs ==
  /\ DriveLives
  /\ \E in \in CycleInputs : drive' = ReadInputsCode(drive, in)
  /\ UNCHANGED driveRest
\* goldsolowhistledrive.cpp:160-174
WriteOutputs ==
  /\ DriveLives
  /\ drive' = WriteOutputsCode(drive)
  /\ UNCHANGED driveRest
\* goldsolowhistledrive.cpp:180-247
Shutdown ==
  /\ DriveLives
  /\ drive' = ShutdownCode(drive)
  /\ UNCHANGED driveRest
SwitchOn ==
  /\ DriveLives
  /\ drive' = SwitchOnCode(drive)
  /\ UNCHANGED driveRest
EnableOperation ==
  /\ DriveLives
  /\ drive' = EnableOperationCode(drive)
  /\ UNCHANGED driveRest
DisableOperation ==
  /\ DriveLives
  /\ drive' = DisableOperationCode(drive)
  /\ UNCHANGED driveRest
DisableVoltage ==
  /\ DriveLives
  /\ drive' = DisableVoltageCode(drive)
  /\ UNCHANGED driveRest
QuickStop ==
  /\ DriveLives
  /\ drive' = QuickStopCode(drive)
  /\ UNCHANGED driveRest
FaultReset ==
  /\ DriveLives
  /\ drive' = FaultResetCode(drive)
  /\ UNCHANGED driveRest
\* goldsolowhistledrive.cpp:249-256
ChangePosition ==
  /\ DriveLives
  /\ \E x \in Values : drive' = ChangePositionCode(drive, x)
  /\ UNCHANGED driveRest

LifecycleEvent ==
  \/ Shutdown \/ SwitchOn \/ EnableOperation \/ DisableOperation
  \/ DisableVoltage \/ QuickStop \/ FaultReset
\* decode steps and events
NextDrive == ReadInputs \/ LifecycleEvent \/ ChangePosition
SpecDrive == InitDrive /\ [][NextDrive]_vars
\* decode and encode steps around one event
NextDriveIO == ReadInputs \/ SwitchOn \/ WriteOutputs
SpecDriveIO == InitDrive /\ [][NextDriveIO]_vars

\* goldsolowhistledrive.cpp:263-270
ChangeVelocity ==
  /\ DriveLives
  /\ \E x \in Values : drive' = ChangeVelocityCode(drive, x)
  /\ UNCHANGED driveRest
\* goldsolowhistledrive.cpp:277-284
ChangeTorque ==
  /\ DriveLives
  /\ \E x \in Values : drive' = ChangeTorqueCode(drive, x)
  /\ UNCHANGED driveRest
\* goldsolowhistledrive.cpp:286-289
ChangeDeltaTorque ==
  /\ DriveLives
  /\ \E x \in Values : drive' = ChangeDeltaTorqueCode(drive, x)
  /\ UNCHANGED driveRest
\* goldsolowhistledrive.cpp:291-316 called by the application
ChangeOpModeCall ==
  /\ DriveLives
  /\ \E m \in DisplayOpModes : drive' = ChangeOpMode(drive, m)
  /\ UNCHANGED driveRest
\* goldsolowhistledrive.cpp:318-343
SetTargetDefaults ==
  /\ DriveLives
  /\ drive' = SetTargetDefaultsCode(drive)
  /\ UNCHANGED driveRest
SetpointCommand ==
  \/ ChangePosition \/ ChangeVelocity \/ ChangeTorque \/ ChangeDeltaTorque
  \/ ChangeOpModeCall \/ SetTargetDefaults
\* decode steps, the events towards OperationEnabled, and setpoint commands
NextSetpoint == ReadInputs \/ SwitchOn \/ EnableOperation \/ SetpointCommand
SpecSetpoint == InitDrive /\ [][NextSetpoint]_vars

\* what the setpoint commands leave of a drive (goldsolowhistledrive.cpp:249-343)
SetpointResults(d) ==
  {ChangePositionCode(d, x) : x \in Values} \cup {ChangeVelocityCode(d, x) : x \in Values}
    \cup {ChangeTorqueCode(d, x) : x \in Values}
    \cup {ChangeDeltaTorqueCode(d, x) : x \in Values}
    \cup {ChangeOpMode(d, m) : m \in DisplayOpModes} \cup {SetTargetDefaultsCode(d)}
\* ----------------------------------------- the drive in the cycle of a loop hook
\* The loop hook decodes the inputs, issues events and commands, and encodes
\* the outputs, in this order; cpc is its position ("idle" before the first
\* cycle, "decoded", "encoded").
cycleRest == <<hookVars, policy, cycle_time_nsec_, flagVars, mutex_, spawned,
               workerVars, phase, in_stop, in_dtor, ready_call, now, histVars,
               wakeVars, cpuVars>>
\* what the events and commands of a cycle leave of a drive
CycleCommandResults(d) ==
  {SwitchOnCode(d), EnableOperationCode(d), DisableVoltageCode(d)}
    \cup SetpointResults(d)
CycleReadInputs ==
  /\ DriveLives
  /\ cpc \in {"idle", "encoded"}
  /\ \E in \in CycleInputs : drive' = ReadInputsCode(drive, in)
  /\ cpc' = "decoded"
  /\ UNCHANGED cycleRest
CycleCommand ==
  /\ DriveLives
  /\ cpc = "decoded"
  /\ \E d \in CycleCommandResults(drive) : drive' = d
  /\ UNCHANGED <<cpc, cycleRest>>
CycleWriteOutputs ==
  /\ DriveLives
  /\ cpc = "decoded"
  /\ drive' = WriteOutputsCode(drive)
  /\ cpc' = "encoded"
  /\ UNCHANGED cycleRest
NextCycle == CycleReadInputs \/ CycleCommand \/ CycleWriteOutputs
SpecCycle == InitDrive /\ [][NextCycle]_vars

\* StateMachine::GetCurrentState (state_machine.h)
GetCurrentState == drive.current_state
\* C20: after every ReadInputs the state machine's current state is the
\* state GetDriveState returns for the status word just read.
ReadInputsCalled ==
  phase = "drive" /\ \E in \in CycleInputs : drive' = ReadInputsCode(drive, in)
C20_CurrentStateIsDecodedState ==
  [][ReadInputsCalled => GetCurrentState' = GetDriveState(drive'.status_word)]_vars

\* the output snapshot: output_pdos_ (goldsolowhistledrive.h:289-296)
OutputSnapshot(d) ==
  [control_word |-> d.control_word, op_mode |-> d.op_mode,
   target_position |-> d.target_position, target_velocity |-> d.target_velocity,
   target_torque |-> d.target_torque]
\* the inputs whose status word decodes to OperationEnabled
OperationEnabledInputs ==
  { in \in CycleInputs : GetDriveState(in.status_word) = ST_OPERATION_ENABLED }

\* C21: from SwitchedOn, after EnableOperation, a ReadInputs on a status word
\* that decodes to OperationEnabled leaves the current state OperationEnabled.
C21_EnableThenDecodeIsOperationEnabled ==
  (phase = "drive" /\ GetCurrentState = ST_SWITCHED_ON
     /\ drive = EnableOperationCode(drive)) =>
    \A in \in OperationEnabledInputs :
      ReadInputsCode(drive, in).current_state = ST_OPERATION_ENABLED

\* C22: a ReadInputs that newly decodes OperationEnabled sets the commanded
\* mode to the displayed mode and the target of that mode to the actual value
\* read in the same call.
C22_NewOperationEnabledResyncsOutputs ==
  (phase = "drive" /\ GetCurrentState # ST_OPERATION_ENABLED) =>
    \A in \in OperationEnabledInputs :
      LET d == ReadInputsCode(drive, in)
      IN /\ d.op_mode = in.display_op_mode
         /\ in.display_op_mode = CYCLIC_POSITION =>
              d.target_position = in.pos_actual_value
         /\ in.display_op_mode = CYCLIC_VELOCITY =>
              d.target_velocity = in.vel_actual_value
         /\ in.display_op_mode = CYCLIC_TORQUE =>
              d.target_torque = in.torque_actual_value

\* the decode of the status word as a tree over bits 6, 5, 1, 2 and 3
DecodeTree(word) ==
  IF BitIsSet(word, 6) THEN ST_NOT_READY_TO_SWITCH_ON
  ELSE IF BitIsSet(word, 5)
    THEN IF ~BitIsSet(word, 1) THEN ST_READY_TO_SWITCH_ON
         ELSE IF ~BitIsSet(word, 2) THEN ST_SWITCHED_ON
         ELSE ST_OPERATION_ENABLED
  ELSE IF ~BitIsSet(word, 3) THEN ST_QUICK_STOP_ACTIVE
  ELSE IF BitIsSet(word, 2) THEN ST_FAULT_REACTION_ACTIVE
  ELSE ST_FAULT
\* the bits of the tree
DecodeBits == {6, 5, 1, 2, 3}
\* the word with one bit turned over
FlipBit(word, bit) == IF BitIsSet(word, bit) THEN ClearBit(word, bit) ELSE SetBit(word, bit)
\* C23: GetDriveState is the priority tree over bits 6, 5, 1, 2, 3 on every
\* status word, the decoded state of the drive is the tree of the word read,
\* and no other bit changes the result.
C23_DecodeIsPriorityTree ==
  phase = "drive" =>
    /\ \A word \in StatusWords :
         /\ GetDriveState(word) = DecodeTree(word)
         /\ \A bit \in (0..(StatusWordBits - 1)) \ DecodeBits :
              GetDriveState(FlipBit(word, bit)) = GetDriveState(word)
    /\ drive.drive_state_ # ST_START => drive.drive_state_ = DecodeTree(drive.status_word)
C23_Witness ==
  /\ phase = "drive"
  /\ drive.drive_state_ = ST_FAULT_REACTION_ACTIVE
  /\ BitIsSet(drive.status_word, StatusBit.READY_TO_SWITCH_ON)

\* the drive with its state machine in OperationEnabled, all else as it is
InOperationEnabled(d) ==
  [d EXCEPT !.current_state = ST_OPERATION_ENABLED, !.prev_state_ = ST_OPERATION_ENABLED]
LifecycleEventResults(d) ==
  { ShutdownCode(d), SwitchOnCode(d), EnableOperationCode(d), DisableOperationCode(d),
    DisableVoltageCode(d), QuickStopCode(d), FaultResetCode(d) }
\* C25: in every state that decodes and events lead to, no lifecycle event
\* changes the current state of the state machine: of the decodes and the
\* events, only ReadInputs changes it.
C25_StateChangesOnlyInReadInputs ==
  DriveLives =>
    \A d \in LifecycleEventResults(drive) : d.current_state = GetCurrentState
C25_Witness ==
  /\ DriveLives
  /\ GetCurrentState = ST_SWITCHED_ON
  /\ drive.drive_state_ = ST_SWITCHED_ON
  /\ drive = EnableOperationCode(drive)

\* the lifecycle events by name (goldsolowhistledrive.cpp:180-247)
LifecycleEvents ==
  {"Shutdown", "SwitchOn", "EnableOperation", "DisableOperation", "DisableVoltage",
   "QuickStop", "FaultReset"}
EventCode(event, d) ==
  CASE event = "Shutdown" -> ShutdownCode(d)
    [] event = "SwitchOn" -> SwitchOnCode(d)
    [] event = "EnableOperation" -> EnableOperationCode(d)
    [] event = "DisableOperation" -> DisableOperationCode(d)
    [] event = "DisableVoltage" -> DisableVoltageCode(d)
    [] event = "QuickStop" -> QuickStopCode(d)
    [] event = "FaultReset" -> FaultResetCode(d)
\* the states an event is legal from, as the class documents its events
\* (goldsolowhistledrive.h:124-170)
LegalFrom(event) ==
  CASE event = "Shutdown" ->
         {ST_SWITCH_ON_DISABLED, ST_SWITCHED_ON, ST_OPERATION_ENABLED}
    [] event = "SwitchOn" -> {ST_READY_TO_SWITCH_ON}
    [] event = "EnableOperation" -> {ST_SWITCHED_ON, ST_QUICK_STOP_ACTIVE}
    [] event = "DisableOperation" -> {ST_OPERATION_ENABLED}
    [] event = "DisableVoltage" ->
         {ST_READY_TO_SWITCH_ON, ST_OPERATION_ENABLED, ST_SWITCHED_ON,
          ST_QUICK_STOP_ACTIVE}
    [] event = "QuickStop" ->
         {ST_READY_TO_SWITCH_ON, ST_SWITCHED_ON, ST_OPERATION_ENABLED}
    [] event = "FaultReset" -> {ST_FAULT}
\* C26: a lifecycle event issued from a state that is not one of its legal
\* states leaves the output snapshot unchanged.
C26_EventsOnlyFromLegalStates ==
  DriveLives =>
    \A event \in LifecycleEvents :
      GetCurrentState \notin LegalFrom(event) =>
        OutputSnapshot(EventCode(event, drive)) = OutputSnapshot(drive)

\* the control-word bits an event sets and clears
EventBits(event) ==
  CASE event = "Shutdown" -> [set |-> {1, 2}, clear |-> {0, 7}]
    [] event = "SwitchOn" -> [set |-> {0, 1, 2}, clear |-> {3, 7}]
    [] event = "EnableOperation" -> [set |-> {0, 1, 2, 3}, clear |-> {7}]
    [] event = "DisableOperation" -> [set |-> {0, 1, 2}, clear |-> {3, 7}]
    [] event = "DisableVoltage" -> [set |-> {}, clear |-> {1, 7}]
    [] event = "QuickStop" -> [set |-> {1}, clear |-> {2, 7}]
    [] event = "FaultReset" -> [set |-> {7}, clear |-> {}]
\* the bits of a control word
ControlWordBitNumbers == 0..15
\* C27: every lifecycle event sets the bits listed for it, clears the bits
\* listed for it and leaves every other bit of the control word (switch-on 0,
\* enable-voltage 1, quick-stop 2, enable-operation 3, fault 7).
C27_EventsSetAndClearTheirBits ==
  DriveLives =>
    /\ ControlBit = [SWITCH_ON |-> 0, ENABLE_VOLTAGE |-> 1, QUICK_STOP |-> 2,
                     ENABLE_OPERATION |-> 3, FAULT |-> 7]
    /\ \A event \in LifecycleEvents : \A bit \in ControlWordBitNumbers :
         LET after == EventCode(event, drive).control_word
         IN IF bit \in EventBits(event).set THEN BitIsSet(after, bit)
            ELSE IF bit \in EventBits(event).clear THEN ~BitIsSet(after, bit)
            ELSE BitIsSet(after, bit) = BitIsSet(drive.control_word, bit)
C27_Witness ==
  /\ DriveLives
  /\ drive = ShutdownCode(drive)
  /\ BitIsSet(drive.control_word, ControlBit.ENABLE_OPERATION)
  /\ ~BitIsSet(drive.control_word, ControlBit.SWITCH_ON)

\* C28: SwitchOn sets the commanded mode to CYCLIC_POSITION and the target
\* position to the actual position that input_pdos_ holds, and leaves the
\* target velocity and the target torque.
C28_SwitchOnTargetsActualPosition ==
  DriveLives =>
    LET d == SwitchOnCode(drive)
    IN /\ d.op_mode = CYCLIC_POSITION
       /\ d.target_position = drive.pos_actual_value
       /\ d.target_velocity = drive.target_velocity
       /\ d.target_torque = drive.target_torque
C28_Witness ==
  /\ DriveLives
  /\ GetCurrentState = ST_READY_TO_SWITCH_ON
  /\ drive = SwitchOnCode(drive)
  /\ drive.target_position = MaxValue
  /\ drive.target_velocity # Around(MaxValue, 1)

\* C29: WriteOutputs always writes the control word and the commanded mode to
\* the domain; it writes the three targets when the state decoded by the
\* latest ReadInputs is SwitchedOn or OperationEnabled and leaves the three
\* targets of the domain otherwise. Nothing else changes.
C29_WriteOutputsTargetsOnlyWhenOn ==
  DriveLives =>
    LET d == WriteOutputsCode(drive)
        targets(o) == <<o.target_position, o.target_velocity, o.target_torque>>
    IN /\ d.domain.control_word = drive.control_word
       /\ d.domain.op_mode = drive.op_mode
       /\ targets(d.domain) =
            IF drive.drive_state_ \in {ST_SWITCHED_ON, ST_OPERATION_ENABLED}
              THEN targets(drive) ELSE targets(drive.domain)
       /\ d = [drive EXCEPT !.domain = d.domain]
C29_Witness ==
  /\ DriveLives
  /\ drive = WriteOutputsCode(drive)
  /\ drive.drive_state_ = ST_FAULT
  /\ drive.control_word # 0
  /\ drive.domain.target_position = MaxValue
  /\ drive.target_position # MaxValue

\* C30: a constructed drive on which ReadInputs has not run yet has its state
\* machine in SwitchOnDisabled, reached from Start through NotReadyToSwitchOn
\* by the internal events of the state actions.
C30_ConstructedInSwitchOnDisabled ==
  (phase = "drive" /\ drive.drive_state_ = ST_START) =>
    /\ GetCurrentState = ST_SWITCH_ON_DISABLED
    /\ StateAction(ST_START) = ST_NOT_READY_TO_SWITCH_ON
    /\ StateAction(ST_NOT_READY_TO_SWITCH_ON) = ST_SWITCH_ON_DISABLED
    /\ StateAction(ST_SWITCH_ON_DISABLED) = ST_MAX_STATES
C30_Witness ==
  /\ phase = "drive"
  /\ drive.drive_state_ = ST_START
  /\ drive.control_word = 0
  /\ GetCurrentState = ST_SWITCH_ON_DISABLED

\* C31: in every state that construction, decodes, events and setpoint
\* commands lead to, the state machine rests in neither Start nor
\* NotReadyToSwitchOn, and no setpoint command, the ChangeOpMode inside
\* ReadInputs included, ends on the CANNOT_HAPPEN assertion.
C31_SetpointNeverCannotHappen ==
  phase = "drive" =>
    /\ ~drive.asserted
    /\ GetCurrentState \notin {ST_START, ST_NOT_READY_TO_SWITCH_ON}
    /\ SetChangeMap(GetCurrentState) # CANNOT_HAPPEN
    /\ \A d \in SetpointResults(drive) : ~d.asserted
    /\ \A in \in CycleInputs : ~ReadInputsCode(drive, in).asserted
C31_Witness ==
  /\ DriveLives
  /\ drive.drive_state_ = ST_OPERATION_ENABLED
  /\ GetCurrentState = ST_SWITCHED_ON
  /\ BitIsSet(drive.control_word, ControlBit.ENABLE_OPERATION)

Int16Edges == {-32768, -32767, -1, 0, 1, 32766, 32767}
OtherOpModes == {NULL_OPERATION, 0, 1, 7}
RaisesInternalEvent(d, in) ==
  /\ GetDriveState(in.status_word) # d.current_state
  /\ GetDriveState(in.status_word) # ST_OPERATION_ENABLED
\* C39: a ReadInputs that reads the status word the ReadInputs before it read
\* raises no internal event and leaves the current state and the output
\* snapshot.
C39_SameWordNoTransition ==
  (DriveLives /\ drive.drive_state_ # ST_START) =>
    \A in \in CycleInputs :
      in.status_word = drive.status_word =>
        /\ ~RaisesInternalEvent(drive, in)
        /\ ReadInputsCode(drive, in).current_state = GetCurrentState
        /\ OutputSnapshot(ReadInputsCode(drive, in)) = OutputSnapshot(drive)

\* ------------------------------------------- a Thread given its CPU set
\* The caller constructs a Thread, which takes all cores (threads.cpp:514),
\* and gives it its CPU set with one call of SetCPUs, in either form; the
\* Thread is not started, so SetThreadCPUs is not called. A call that ends
\* in HandleErrorEn ends the process.
InitCpu ==
  /\ InitThread
  /\ clock = NewClock(kDefaultCycleNsec)
  /\ phase = "cpu" /\ cpc = "idle"

cpuRest == <<hookVars, policy, cycle_time_nsec_, flagVars, mutex_, spawned,
             workerVars, cpc, in_stop, in_dtor, ready_call, now, histVars,
             wakeVars, drive>>

\* threads.cpp:240-247
SetCPUs ==
  /\ phase = "cpu"
  /\ \E cpu_core \in CoreArgs :
       LET built == BuildCPUSet(cpu_core) IN
         /\ cpu_call' = [form |-> "core", arg |-> <<cpu_core>>, fatal |-> built.fatal]
         /\ cpu_set_' = IF built.fatal THEN cpu_set_ ELSE built.cpu_set
         /\ phase' = IF built.fatal THEN "exited" ELSE "cpu_set"
  /\ UNCHANGED cpuRest

\* threads.cpp:249-256
SetCPUsList ==
  /\ phase = "cpu"
  /\ \E cpu_cores \in CoreLists :
       LET built == BuildCPUSetList(cpu_cores) IN
         /\ cpu_call' = [form |-> "list", arg |-> cpu_cores, fatal |-> built.fatal]
         /\ cpu_set_' = IF built.fatal THEN cpu_set_ ELSE built.cpu_set
         /\ phase' = IF built.fatal THEN "exited" ELSE "cpu_set"
  /\ UNCHANGED cpuRest

NextCpu == SetCPUs \/ SetCPUsList
SpecCpu == InitCpu /\ [][NextCpu]_vars

\* the elements of the last call's argument
CalledCores == {cpu_call.arg[i] : i \in 1..Len(cpu_call.arg)}
\* a core index that names a core
IsCore(c) == c \in 0..(CPU_CORES_NUM - 1)

\* C34: BuildCPUSet ends in a fatal error, and returns no set, for every
\* index that is neither a sentinel (all cores, last core) nor in
\* [0, number of cores): in the single-index form, and in the list form for
\* every element of the list, the negative ones other than the last-core
\* sentinel included.
C34_InvalidIndexIsFatal ==
  (phase \in {"cpu_set", "exited"} /\ cpu_call.form # "none") =>
    ((\E c \in CalledCores : ~IsCore(c) /\ c \notin {ALL_CORES, END_CORE})
       => cpu_call.fatal /\ phase = "exited")

\* C35: BuildCPUSet over a list of valid core indices returns exactly the
\* set of the distinct indices of the list, the last-core sentinel standing
\* for index cores-1, whatever the order and the repetitions; with no
\* argument it returns all cores, and with the last-core sentinel {cores-1}.
C35_ListGivesDistinctIndices ==
  /\ (phase = "cpu" /\ cpu_call.form = "none") => cpu_set_ = 0..(CPU_CORES_NUM - 1)
  /\ (phase \in {"cpu_set", "exited"} /\ cpu_call.form = "core") =>
       /\ cpu_call.arg = <<ALL_CORES>> =>
            ~cpu_call.fatal /\ cpu_set_ = 0..(CPU_CORES_NUM - 1)
       /\ cpu_call.arg = <<END_CORE>> =>
            ~cpu_call.fatal /\ cpu_set_ = {CPU_CORES_NUM - 1}
  /\ (phase \in {"cpu_set", "exited"} /\ cpu_call.form = "list") =>
       ((\A c \in CalledCores : IsCore(c) \/ c = END_CORE) =>
          /\ ~cpu_call.fatal
          /\ cpu_set_ = {IF c = END_CORE THEN CPU_CORES_NUM - 1 ELSE c : c \in CalledCores})

\* the init hook has overrun the first deadline of a worker started under a
\* real-time policy: the WaitUntilNext of threads.cpp:533 is about to fail
InitOverrun == wpc = "init_wait" /\ ~ignore_deadline /\ WaitUntilNextLate(clock, now)
\* where the worker is from the outer loop's test to the end of the
\* deadline-miss exit (threads.cpp:537, 557-569)
MissExitPcs == {"outer", "exit_check", "emerg_lock", "in_emerg", "emerg_fin"}
\* The flag is raised by the failed first wait, before the loops; from there
\* the worker goes through the deadline-miss exit only, with no loop hook and
\* no end hook, and ends inactive and not running.
InitOverrunLeavesByMissExit ==
  [][/\ (InitOverrun /\ wpc' # wpc) => (rt_deadline_missed_' /\ wpc' = "outer")
     /\ (wpc \in MissExitPcs /\ rt_deadline_missed_) =>
          /\ rt_deadline_missed_'
          /\ wpc' \in MissExitPcs \cup {"done"}
          /\ hook_calls'.end = hook_calls.end
          /\ wpc' = "done" => (~active_' /\ ~run_')]_vars
\* C36: when the init hook overruns the first deadline under a real-time
\* policy, the deadline-missed flag is set before the cyclic loop is entered,
\* the loop hook is never invoked, and the worker takes the deadline-miss
\* exit: the emergency hook that was set is invoked, the worker ends inactive
\* and the end hook is not invoked.
C36_InitOverrunTakesDeadlineMissExit ==
  [][/\ (InitOverrun /\ wpc' # wpc) => (rt_deadline_missed_' /\ wpc' = "outer")
     /\ (wpc \in MissExitPcs /\ rt_deadline_missed_) =>
          /\ rt_deadline_missed_'
          /\ wpc' \in MissExitPcs \cup {"done"}
          /\ hook_calls'.end = hook_calls.end
          /\ wpc' = "done" => (~active_' /\ ~run_')
          /\ (wpc = "exit_check" /\ wpc' # wpc /\ emergency_exit_fun_ptr_ # NULL)
               => wpc' = "emerg_lock"]_vars

\* C37: Stop, called by the caller or by the destructor, calls pthread_join
\* only when an execution context was spawned; after a GetReady that
\* returned 0 and no Start, Stop makes no join.
C37_JoinOnlyOnSpawned ==
  [][(cpc \in {"stop_join", "stop_join_dm"} /\ cpc' # cpc) => spawned]_vars

\* where the worker is while it holds the mutex: TargetFun's first section
\* (threads.cpp:519-522), the init hook (530-532), the timed-lock section
\* with the test of run_ and the loop hook (543-551), the emergency hook
\* (563-565) and the end hook (574-576)
LockedPcs == {"t_setup", "in_init", "locked", "call_loop", "in_loop", "in_emerg", "in_end"}
\* where the worker is inside clock.WaitUntilNext (threads.cpp:533, 553)
BoundaryPcs == {"init_wait", "init_sleep", "wait", "sleep"}
\* C38: the worker holds the mutex only inside one of its locked sections,
\* each of which holds at most one hook invocation: it never holds it while
\* it is inside WaitUntilNext at a cycle boundary, on the paused path, the
\* timed-out path or a hook path, nor once it has ended.
C38_NoLockAcrossWaitOrExit ==
  /\ mutex_ = "worker" => wpc \in LockedPcs
  /\ wpc \in BoundaryPcs \cup {"outer", "done"} => mutex_ # "worker"
\* The worker sleeps at the cycle boundary after a loop hook invocation while
\* the caller, inside Pause, holds the mutex.
C38_Witness ==
  /\ wpc = "sleep" /\ mutex_ = "caller" /\ cpc = "pause_set" /\ ~timed_out
  /\ phase = "started"
====
